---- MODULE Spec2Model ----
(***************************************************************************)
(* Model of crochet's migration engine (crochet/migrations/engine.py) and  *)
(* of the migration table of its SQLite ledger (crochet/ledger/sqlite.py). *)
(*                                                                         *)
(* Revision ids are modelled as the integers 1..MaxFiles; their integer    *)
(* order stands for the lexical order of the revision_id strings.  The     *)
(* migrations directory is the sequence `files', kept in the order of      *)
(* sorted(migrations_dir.glob("*.py")), i.e. in file NAME order, which is  *)
(* independent of the revision_id and parent_id bindings inside a file.    *)
(***************************************************************************)
EXTENDS Integers, Sequences, FiniteSets, TLC

\* ------------------------------------------------------------------------
\* Bounds
\* ------------------------------------------------------------------------

\* largest number of migration files in the migrations directory
MaxFiles == 3

\* largest clock reading a direct Ledger call may store
MaxClock == 3

\* number of revision ids in direct Ledger calls
MaxRevs == 2

\* number of batch ids
MaxBatches == 2

\* number of snapshot contents
MaxJsons == 2

\* largest number of rows of a data argument
MaxRows == 3

\* largest chunk_size
MaxChunk == 2

\* largest number of audit log entries other than those of begin_batch
MaxOps == 2

\* largest number of begin_batch calls on one MigrationContext
MaxBegins == 2

\* number of concurrent fetch_remote calls
MaxFetches == 2

\* number of chunks of a downloaded file
FileChunks == 2

\* ------------------------------------------------------------------------
\* Values
\* ------------------------------------------------------------------------

\* Python's None, as the value of parent_id and of target
None == 0

\* Python's None where a string is expected (batch_id=None, no parameter)
NoneStr == "None"

Revs == 1..MaxFiles

\* MigrationFile: the metadata the engine reads from a loaded module
MigrationFile == [revision_id : Revs, parent_id : Revs \cup {None}, rollback_safe : BOOLEAN]

VARIABLES
    files,      \* the loaded migration files, in file name order
    ledger,     \* rows of applied_migrations, in applied_at order
    pc,         \* position of the engine inside the running call
    call,       \* the running (or last) call: op, target, dry_run
    todo,       \* the list the running call iterates over
    idx,        \* index into todo of the migration being processed
    ids,        \* applied_ids / reverted_ids of the running call
    executed,   \* bodies invoked by the running (or last) call, in order
    outcome,    \* how the last call ended
    ledger0,    \* the ledger when the running (or last) call started
    lost,       \* the revision whose upgrade body had completed when the last crash prevented its record, until it is recorded; else None
    repeated,   \* the running (or last) call has the arguments of the call before it, and that call returned
    discovered, \* result of the last discover_migrations() call (SpecSort)
    batches,    \* rows of dataset_batches, in rowid order
    snapshots,  \* rows of schema_snapshots: schema_hash -> snapshot_json
    txn,        \* the open transaction of the connection: the committed image it would roll back to
    reply,      \* what the last direct Ledger call returned or raised
    created,    \* the migrations made by create_migration, in creation order
    ctx,        \* the MigrationContext: driver, dry_run, _batch_id, operations
    db,         \* the requests the driver has received (session.run calls), in order
    job,        \* the MigrationContext call in progress
    returned,   \* what the last MigrationContext call returned or raised
    given,      \* the arguments of the schema IR function under study
    computed,   \* its results
    disk,       \* the files of the staging directory and of the cache: path -> file
    fetchers,   \* the fetch_remote calls: position, arguments, locals
    report      \* the VerificationReport of the last verify_project call

vars == <<files, ledger, pc, call, todo, idx, ids, executed, outcome, ledger0, lost, repeated, discovered, batches, snapshots, txn, reply, created, ctx, db, job, returned, given, computed, disk, fetchers, report>>

\* ------------------------------------------------------------------------
\* Sequence helpers
\* ------------------------------------------------------------------------

Range(s) == {s[i] : i \in DOMAIN s}

Reverse(s) == [i \in 1..Len(s) |-> s[Len(s) + 1 - i]]

Last(s) == s[Len(s)]

RevIds(ms) == [i \in 1..Len(ms) |-> ms[i].revision_id]

\* sorted(migrations, key=lambda m: m.revision_id): Python's sort is stable
RECURSIVE InsertByRevision(_, _)
InsertByRevision(m, s) ==
    IF s = <<>> THEN <<m>>
    ELSE IF m.revision_id < Head(s).revision_id THEN <<m>> \o s
    ELSE <<Head(s)>> \o InsertByRevision(m, Tail(s))

RECURSIVE SortedByRevision(_)
SortedByRevision(ms) ==
    IF ms = <<>> THEN <<>>
    ELSE InsertByRevision(Last(ms), SortedByRevision(SubSeq(ms, 1, Len(ms) - 1)))

\* ------------------------------------------------------------------------
\* MigrationEngine._sort_by_chain
\* ------------------------------------------------------------------------

\* by_id = {m.revision_id: m for m in migrations}: the last file wins
by_id(ms) ==
    [r \in {ms[i].revision_id : i \in DOMAIN ms} |->
        ms[CHOOSE i \in DOMAIN ms : /\ ms[i].revision_id = r
                                    /\ \A j \in DOMAIN ms : ms[j].revision_id = r => j <= i]]

\* roots = [m for m in migrations if m.parent_id is None]
IsRoot(m) == m.parent_id = None

roots(ms) == SelectSeq(ms, IsRoot)

\* the nested function walk(m); st = [ordered, visited]
RECURSIVE walk(_, _, _)
walk(m, byid, st) ==
    IF m.revision_id \in st.visited THEN st
    ELSE LET st1 == [st EXCEPT !.visited = @ \cup {m.revision_id}]
             st2 == IF m.parent_id # None /\ m.parent_id \in DOMAIN byid
                    THEN walk(byid[m.parent_id], byid, st1)
                    ELSE st1
         IN  [st2 EXCEPT !.ordered = Append(@, m)]

\* for root in roots: walk(root)
RECURSIVE WalkRoots(_, _, _)
WalkRoots(rs, byid, st) ==
    IF rs = <<>> THEN st
    ELSE WalkRoots(Tail(rs), byid, walk(Head(rs), byid, st))

\* for m in migrations: if m.revision_id not in visited: ordered.append(m)
AppendOrphans(ms, st) ==
    LET NotVisited(m) == m.revision_id \notin st.visited
    IN  st.ordered \o SelectSeq(ms, NotVisited)

_sort_by_chain(ms) ==
    IF roots(ms) = <<>> /\ ms # <<>>
    THEN SortedByRevision(ms)
    ELSE AppendOrphans(ms, WalkRoots(roots(ms), by_id(ms), [ordered |-> <<>>, visited |-> {}]))

\* MigrationEngine.discover_migrations: the files in name order, chain-sorted
discover_migrations == _sort_by_chain(files)

\* ------------------------------------------------------------------------
\* Ledger: the applied_migrations table
\* ------------------------------------------------------------------------

\* Ledger.is_applied: SELECT 1 FROM applied_migrations WHERE revision_id = ?
is_applied(l, r) == \E i \in DOMAIN l : l[i].revision_id = r

\* the values _apply_one hands to record_migration
Row(mf) == [revision_id |-> mf.revision_id, parent_id |-> mf.parent_id, rollback_safe |-> mf.rollback_safe]

\* the values of the stored rows, without their applied_at
Values(l) == [i \in DOMAIN l |-> [revision_id |-> l[i].revision_id, parent_id |-> l[i].parent_id, rollback_safe |-> l[i].rollback_safe]]

Max(S) == CHOOSE x \in S : \A y \in S : y <= x

\* now = datetime.now(timezone.utc).isoformat(): a reading of the clock.  The
\* clock moves forward from one call to the next and the readings are used
\* only to order rows, so a reading is modelled by its rank: one more than
\* the latest reading stored in the table.
now(rows) ==
    IF rows = <<>> THEN 1 ELSE 1 + Max({rows[i].at : i \in DOMAIN rows})

\* Ledger.record_migration, when the INSERT succeeds: the row is stored
\* after the existing ones (a fresh rowid), with applied_at = now
record_migration(l, row) ==
    Append(l, [revision_id |-> row.revision_id, parent_id |-> row.parent_id,
               rollback_safe |-> row.rollback_safe, at |-> now(l)])

\* Ledger.remove_migration: DELETE ... WHERE revision_id = ?
remove_migration(l, r) ==
    LET Keep(row) == row.revision_id # r
    IN  SelectSeq(l, Keep)

AppliedSet(l) == {l[i].revision_id : i \in DOMAIN l}

\* ORDER BY applied_at / ORDER BY created_at (a stable sort of the stored rows)
RECURSIVE InsertByAt(_, _)
InsertByAt(m, s) ==
    IF s = <<>> THEN <<m>>
    ELSE IF m.at < Head(s).at THEN <<m>> \o s
    ELSE <<Head(s)>> \o InsertByAt(m, Tail(s))

RECURSIVE SortedByAt(_)
SortedByAt(rows) ==
    IF rows = <<>> THEN <<>>
    ELSE InsertByAt(Last(rows), SortedByAt(SubSeq(rows, 1, Len(rows) - 1)))

\* mutant: ORDER BY revision_id
get_applied_migrations_ByRevision(l) == SortedByRevision(l)

\* Ledger.get_applied_migrations: SELECT ... ORDER BY applied_at
get_applied_migrations(l) == SortedByAt(l)

\* Ledger.get_head: migrations[-1] if migrations else None
get_head(l) ==
    LET migrations == get_applied_migrations(l)
    IN  IF migrations = <<>> THEN None ELSE Last(migrations)

\* one issue string of verify_chain: it names the migration and its parent
Issue(m) == [revision_id |-> m.revision_id, parent_id |-> m.parent_id]

\* mutant: the `m.parent_id is not None' test is missing
verify_chain_NoNullTest(l) ==
    LET Dangling(m) == m.parent_id \notin AppliedSet(l)
        found == SelectSeq(get_applied_migrations(l), Dangling)
    IN  [i \in DOMAIN found |-> Issue(found[i])]

\* Ledger.verify_chain
verify_chain(l) ==
    LET Dangling(m) == m.parent_id # None /\ m.parent_id \notin AppliedSet(l)
        found == SelectSeq(get_applied_migrations(l), Dangling)
    IN  [i \in DOMAIN found |-> Issue(found[i])]

\* ------------------------------------------------------------------------
\* Schema IR: PropertyIR, NodeIR, RelationshipIR, SchemaSnapshot
\* ------------------------------------------------------------------------

\* Python's None where an object is expected
NoneObject == [is_none |-> TRUE]

\* an optional entry of a dict or an optional tuple: absent (None), or
\* present with its text or its items
Absent == [present |-> FALSE, text |-> "", items |-> <<>>]

PresentText(text) == [present |-> TRUE, text |-> text, items |-> <<>>]

PresentItems(items) == [present |-> TRUE, text |-> "", items |-> items]

\* Python values of the `default' field: None, the int 1, the str "1"
PyNone == [type |-> "NoneType", text |-> "None"]

PyInt(text) == [type |-> "int", text |-> text]

PyStr(text) == [type |-> "str", text |-> text]

\* repr(value): a str is quoted, None and an int are written as they are
repr(value) == IF value.type = "str" THEN "'" \o value.text \o "'" ELSE value.text

\* the order of Python's str comparison on the property names and on the
\* kgids in use
NameOrder == <<"a", "age", "b", "email">>

KgidOrder == <<"k1", "k2", "p1", "r1", "r2">>

Rank(order, x) == CHOOSE i \in DOMAIN order : order[i] = x

\* sorted(keys): the keys of `order' that are in the set, in order
SortedKeys(order, keys) ==
    LET In(x) == x \in keys
    IN  SelectSeq(order, In)

\* sorted(...) of items with their ranks: Python's sort is stable
RECURSIVE InsertRanked(_, _)
InsertRanked(e, s) ==
    IF s = <<>> THEN <<e>>
    ELSE IF e.rank < Head(s).rank THEN <<e>> \o s
    ELSE <<Head(s)>> \o InsertRanked(e, Tail(s))

RECURSIVE SortRanked(_)
SortRanked(s) ==
    IF s = <<>> THEN <<>>
    ELSE InsertRanked(Last(s), SortRanked(SubSeq(s, 1, Len(s) - 1)))

\* PropertyIR(name, property_type, required, unique_index, index, default, choices)
PropertyIR(name, property_type, required, unique_index, index, default, choices) ==
    [name |-> name, property_type |-> property_type, required |-> required,
     unique_index |-> unique_index, index |-> index, default |-> default,
     choices |-> choices]

\* mutant: "default" is never written
PropertyIR_to_dict_NoDefault(p) ==
    [name |-> p.name, property_type |-> p.property_type, required |-> p.required,
     unique_index |-> p.unique_index, index |-> p.index,
     default |-> Absent,
     choices |-> IF p.choices.present THEN PresentItems(p.choices.items) ELSE Absent]

\* PropertyIR.to_dict: "default" holds repr(default) and "choices" the list,
\* each only if the field is not None
PropertyIR_to_dict(p) ==
    [name |-> p.name, property_type |-> p.property_type, required |-> p.required,
     unique_index |-> p.unique_index, index |-> p.index,
     default |-> IF p.default # PyNone THEN PresentText(repr(p.default)) ELSE Absent,
     choices |-> IF p.choices.present THEN PresentItems(p.choices.items) ELSE Absent]

\* PropertyIR.from_dict: default=d.get("default"),
\* choices=tuple(d["choices"]) if d.get("choices") else None
PropertyIR_from_dict(d) ==
    PropertyIR(d.name, d.property_type, d.required, d.unique_index, d.index,
               IF d.default.present THEN PyStr(d.default.text) ELSE PyNone,
               IF d.choices.present /\ d.choices.items # <<>>
               THEN PresentItems(d.choices.items) ELSE Absent)

\* sorted(self.properties): PropertyIR is ordered by its fields, name first;
\* the names of the properties of one entity are different
sorted_properties(properties) ==
    LET ranked == [i \in DOMAIN properties |->
                    [rank |-> Rank(NameOrder, properties[i].name), item |-> properties[i]]]
        sorted == SortRanked(ranked)
    IN  [i \in DOMAIN sorted |-> sorted[i].item]

\* RelationshipDefIR(attr_name, rel_type, target_label, direction, model_kgid)
RelationshipDefIR(attr_name, rel_type, target_label, direction, model_kgid) ==
    [attr_name |-> attr_name, rel_type |-> rel_type, target_label |-> target_label,
     direction |-> direction, model_kgid |-> model_kgid]

\* RelationshipDefIR.to_dict: "model_kgid" only if it is not None
RelationshipDefIR_to_dict(r) ==
    [attr_name |-> r.attr_name, rel_type |-> r.rel_type, target_label |-> r.target_label,
     direction |-> r.direction,
     model_kgid |-> IF r.model_kgid # NoneStr THEN PresentText(r.model_kgid) ELSE Absent]

RelationshipDefIR_from_dict(d) ==
    RelationshipDefIR(d.attr_name, d.rel_type, d.target_label, d.direction,
                      IF d.model_kgid.present THEN d.model_kgid.text ELSE NoneStr)

\* NodeIR(kgid, label, class_name, module_path, properties, relationship_defs)
NodeIR(kgid, label, class_name, module_path, properties, relationship_defs) ==
    [kgid |-> kgid, label |-> label, class_name |-> class_name,
     module_path |-> module_path, properties |-> properties,
     relationship_defs |-> relationship_defs]

\* NodeIR.to_dict: the properties sorted, the relationship_defs as they are
NodeIR_to_dict(n) ==
    [kgid |-> n.kgid, label |-> n.label, class_name |-> n.class_name,
     module_path |-> n.module_path,
     properties |-> LET ps == sorted_properties(n.properties)
                    IN  [i \in DOMAIN ps |-> PropertyIR_to_dict(ps[i])],
     relationship_defs |-> [i \in DOMAIN n.relationship_defs |->
                             RelationshipDefIR_to_dict(n.relationship_defs[i])]]

NodeIR_from_dict(d) ==
    NodeIR(d.kgid, d.label, d.class_name, d.module_path,
           [i \in DOMAIN d.properties |-> PropertyIR_from_dict(d.properties[i])],
           [i \in DOMAIN d.relationship_defs |->
               RelationshipDefIR_from_dict(d.relationship_defs[i])])

\* RelationshipIR(kgid, rel_type, class_name, module_path, properties)
RelationshipIR(kgid, rel_type, class_name, module_path, properties) ==
    [kgid |-> kgid, rel_type |-> rel_type, class_name |-> class_name,
     module_path |-> module_path, properties |-> properties]

RelationshipIR_to_dict(r) ==
    [kgid |-> r.kgid, rel_type |-> r.rel_type, class_name |-> r.class_name,
     module_path |-> r.module_path,
     properties |-> LET ps == sorted_properties(r.properties)
                    IN  [i \in DOMAIN ps |-> PropertyIR_to_dict(ps[i])]]

RelationshipIR_from_dict(d) ==
    RelationshipIR(d.kgid, d.rel_type, d.class_name, d.module_path,
                   [i \in DOMAIN d.properties |-> PropertyIR_from_dict(d.properties[i])])

\* SchemaSnapshot(nodes, relationships, created_at, schema_hash)
SchemaSnapshot(nodes, relationships, created_at, schema_hash) ==
    [nodes |-> nodes, relationships |-> relationships,
     created_at |-> created_at, schema_hash |-> schema_hash]

\* {n.kgid: n for n in self.nodes}: a later entity of the same kgid
\* replaces an earlier one
by_kgid(entities) ==
    [k \in {entities[i].kgid : i \in DOMAIN entities} |->
        LET last == CHOOSE i \in DOMAIN entities :
                        /\ entities[i].kgid = k
                        /\ \A j \in DOMAIN entities : entities[j].kgid = k => j <= i
        IN  entities[last]]

nodes_by_kgid(s) == by_kgid(s.nodes)

relationships_by_kgid(s) == by_kgid(s.relationships)

\* sorted(entities, key=lambda e: e.kgid)
sorted_by_kgid(entities) ==
    LET ranked == [i \in DOMAIN entities |->
                    [rank |-> Rank(KgidOrder, entities[i].kgid), item |-> entities[i]]]
        sorted == SortRanked(ranked)
    IN  [i \in DOMAIN sorted |-> sorted[i].item]

\* SchemaSnapshot.to_dict
to_dict(s) ==
    [nodes |-> LET ns == sorted_by_kgid(s.nodes)
               IN  [i \in DOMAIN ns |-> NodeIR_to_dict(ns[i])],
     relationships |-> LET rs == sorted_by_kgid(s.relationships)
                       IN  [i \in DOMAIN rs |-> RelationshipIR_to_dict(rs[i])],
     created_at |-> s.created_at,
     schema_hash |-> s.schema_hash]

\* SchemaSnapshot.from_dict
from_dict(d) ==
    SchemaSnapshot([i \in DOMAIN d.nodes |-> NodeIR_from_dict(d.nodes[i])],
                   [i \in DOMAIN d.relationships |-> RelationshipIR_from_dict(d.relationships[i])],
                   d.created_at, d.schema_hash)

\* json.dumps(d, sort_keys=True, ...): the text is determined by the value
\* (a dict's key order does not matter) and by the layout; json.loads
\* gives the value back
dumps(d, layout) == [document |-> d, layout |-> layout]

loads(raw) == raw.document

\* SchemaSnapshot.to_json(indent=2)
to_json(s) == dumps(to_dict(s), "indent=2")

\* SchemaSnapshot.from_json
from_json(raw) == from_dict(loads(raw))

\* _canonical_json: to_dict() without "created_at" and "schema_hash"
_canonical_json(s) ==
    LET d == to_dict(s)
    IN  dumps([nodes |-> d.nodes, relationships |-> d.relationships], "compact")

\* hashlib.sha256(text).hexdigest(): one digest per text
sha256(text) == ToString(text.document)

\* mutant: the digest is taken of the JSON form with created_at and schema_hash
compute_hash_OfJson(s) == sha256(to_json(s))

\* compute_hash
compute_hash(s) == sha256(_canonical_json(s))

\* hash_snapshot: replace(snapshot, schema_hash=h)
hash_snapshot(s) == [s EXCEPT !.schema_hash = compute_hash(s)]

\* PropertyChange(kind, property_name, old, new)
PropertyChange(kind, property_name, old, new) ==
    [kind |-> kind, property_name |-> property_name, old |-> old, new |-> new]

\* old_map.get(name): the last property of that name, or None
get_property(properties, name) ==
    IF \E i \in DOMAIN properties : properties[i].name = name
    THEN LET last == CHOOSE i \in DOMAIN properties :
                        /\ properties[i].name = name
                        /\ \A j \in DOMAIN properties : properties[j].name = name => j <= i
         IN  properties[last]
    ELSE NoneObject

\* what the loops of the differ append for one key: a change or nothing
IsChange(change) == change.kind # "same"

Same == [kind |-> "same"]

\* mutant: two objects are never equal (compared by identity)
ne_Identity(a, b) == TRUE

\* `a != b' on two dataclass instances: field by field
ne(a, b) == a # b

\* _diff_properties(old_props, new_props)
_diff_properties(old_props, new_props) ==
    LET names == SortedKeys(NameOrder, {old_props[i].name : i \in DOMAIN old_props}
                                        \cup {new_props[i].name : i \in DOMAIN new_props})
        change(name) ==
            LET old_p == get_property(old_props, name)
                new_p == get_property(new_props, name)
            IN  IF old_p = NoneObject /\ new_p # NoneObject
                THEN PropertyChange("added", name, NoneObject, new_p)
                ELSE IF old_p # NoneObject /\ new_p = NoneObject
                THEN PropertyChange("removed", name, old_p, NoneObject)
                ELSE IF ne(old_p, new_p)
                THEN PropertyChange("modified", name, old_p, new_p)
                ELSE Same
    IN  SelectSeq([i \in DOMAIN names |-> change(names[i])], IsChange)

\* NodeChange(kind, kgid, old, new, property_changes, label_renamed)
NodeChange(kind, kgid, old, new, property_changes, label_renamed) ==
    [kind |-> kind, kgid |-> kgid, old |-> old, new |-> new,
     property_changes |-> property_changes, label_renamed |-> label_renamed]

\* RelationshipChange(kind, kgid, old, new, property_changes)
RelationshipChange(kind, kgid, old, new, property_changes) ==
    [kind |-> kind, kgid |-> kgid, old |-> old, new |-> new,
     property_changes |-> property_changes]

\* dict.get(kgid)
get(entities, kgid) == IF kgid \in DOMAIN entities THEN entities[kgid] ELSE NoneObject

\* mutant: a label rename alone is not a modification
NodeModified_PropertiesOnly(prop_changes, label_renamed) == prop_changes # <<>>

\* `if prop_changes or label_renamed'
NodeModified(prop_changes, label_renamed) == prop_changes # <<>> \/ label_renamed

\* diff_snapshots, lines 147-170: the node changes
node_changes(old, new) ==
    LET old_nodes == nodes_by_kgid(old)
        new_nodes == nodes_by_kgid(new)
        kgids == SortedKeys(KgidOrder, DOMAIN old_nodes \cup DOMAIN new_nodes)
        change(kgid) ==
            LET old_n == get(old_nodes, kgid)
                new_n == get(new_nodes, kgid)
            IN  IF old_n = NoneObject /\ new_n # NoneObject
                THEN NodeChange("added", kgid, NoneObject, new_n, <<>>, FALSE)
                ELSE IF old_n # NoneObject /\ new_n = NoneObject
                THEN NodeChange("removed", kgid, old_n, NoneObject, <<>>, FALSE)
                ELSE IF ne(old_n, new_n)
                THEN LET prop_changes == _diff_properties(old_n.properties, new_n.properties)
                         label_renamed == old_n.label # new_n.label
                     IN  IF NodeModified(prop_changes, label_renamed)
                         THEN NodeChange("modified", kgid, old_n, new_n, prop_changes, label_renamed)
                         ELSE Same
                ELSE Same
    IN  SelectSeq([i \in DOMAIN kgids |-> change(kgids[i])], IsChange)

\* diff_snapshots, lines 172-197: the relationship changes
relationship_changes(old, new) ==
    LET old_rels == relationships_by_kgid(old)
        new_rels == relationships_by_kgid(new)
        kgids == SortedKeys(KgidOrder, DOMAIN old_rels \cup DOMAIN new_rels)
        change(kgid) ==
            LET old_r == get(old_rels, kgid)
                new_r == get(new_rels, kgid)
            IN  IF old_r = NoneObject /\ new_r # NoneObject
                THEN RelationshipChange("added", kgid, NoneObject, new_r, <<>>)
                ELSE IF old_r # NoneObject /\ new_r = NoneObject
                THEN RelationshipChange("removed", kgid, old_r, NoneObject, <<>>)
                ELSE IF ne(old_r, new_r)
                THEN LET prop_changes == _diff_properties(old_r.properties, new_r.properties)
                     IN  IF prop_changes # <<>>
                         THEN RelationshipChange("modified", kgid, old_r, new_r, prop_changes)
                         ELSE Same
                ELSE Same
    IN  SelectSeq([i \in DOMAIN kgids |-> change(kgids[i])], IsChange)

\* diff=None
NoDiff == [is_none |-> TRUE, node_changes |-> <<>>, relationship_changes |-> <<>>]

\* diff_snapshots(old, new): the SchemaDiff
diff_snapshots(old, new) ==
    [is_none |-> FALSE,
     node_changes |-> node_changes(old, new),
     relationship_changes |-> relationship_changes(old, new)]

\* SchemaDiff.has_changes
has_changes(diff) == diff.node_changes # <<>> \/ diff.relationship_changes # <<>>

\* SchemaDiff.summary, as far as the template looks at it: empty or not
summary(diff) == IF has_changes(diff) THEN "changes" ELSE "No schema changes detected."

\* the contents of the snapshots given to create_migration: one node, kgid
\* "p1", with the property `age' and, as declared, the property `email'
\* (StringProperty, possibly unique_index); schema_hash is set, by
\* hash_snapshot
PersonSnapshot(label, email) ==
    LET age == PropertyIR("age", "IntegerProperty", FALSE, FALSE, FALSE, PyNone, Absent)
        properties == IF email = "absent" THEN <<age>>
                      ELSE <<age, PropertyIR("email", "StringProperty", FALSE, email = "unique",
                                             FALSE, PyNone, Absent)>>
    IN  hash_snapshot(SchemaSnapshot(<<NodeIR("p1", label, "Person", "models", properties, <<>>)>>,
                                     <<>>, "t1", ""))

SnapshotList ==
    << PersonSnapshot("Person", "absent"),
       PersonSnapshot("Person", "plain"),
       PersonSnapshot("Person", "unique"),
       PersonSnapshot("Human", "unique") >>

Snapshots == Range(SnapshotList)

\* current_snapshot=None
NoSnapshot == NoneObject

\* the snapshot_json column of schema_snapshots holds the number of a JSON
\* document: the documents in use are numbered
Documents == [i \in DOMAIN SnapshotList |-> to_json(SnapshotList[i])]

JsonNumber(raw) == CHOOSE j \in DOMAIN Documents : Documents[j] = raw

Document(j) == Documents[j]

\* ------------------------------------------------------------------------
\* Ledger: the dataset_batches and schema_snapshots tables, transactions
\* ------------------------------------------------------------------------

BatchIds == 1..MaxBatches

\* the revision ids and parent ids passed in direct Ledger calls
LedgerRevs == 1..MaxRevs

LedgerParents == Revs \cup {None}

Jsons == 1..MaxJsons

\* the schema hash passed in direct store_snapshot calls
Hashes == {"h1"}

\* schema hashes: the keys of schema_snapshots
SchemaHashes == Hashes \cup {compute_hash(s) : s \in Snapshots}

has_batch(bs, b) == \E i \in DOMAIN bs : bs[i].batch_id = b

\* some batch row refers to applied_migrations(revision_id = r)
Referenced(bs, r) == \E i \in DOMAIN bs : bs[i].migration_id = r

\* FOREIGN KEY (migration_id) REFERENCES applied_migrations(revision_id),
\* enforced because of PRAGMA foreign_keys=ON; a NULL migration_id refers to
\* nothing
ForeignKeyOk(l, m) == m = None \/ is_applied(l, m)

\* mutant: the foreign key is not enforced
IntegrityError_OnInsert_NoForeignKey(l, bs, b, m) == has_batch(bs, b)

\* the INSERT INTO dataset_batches raises sqlite3.IntegrityError: the
\* PRIMARY KEY batch_id is taken, or the foreign key fails
IntegrityError_OnInsert(l, bs, b, m) == has_batch(bs, b) \/ ~ForeignKeyOk(l, m)

\* Ledger.record_batch, when the INSERT succeeds
record_batch(bs, b, m) == Append(bs, [batch_id |-> b, migration_id |-> m, at |-> now(bs)])

\* Ledger.remove_batch: DELETE FROM dataset_batches WHERE batch_id = ?
remove_batch(bs, b) ==
    LET Keep(row) == row.batch_id # b
    IN  SelectSeq(bs, Keep)

\* Ledger.get_batches(): SELECT ... ORDER BY created_at
get_batches(bs) == SortedByAt(bs)

\* the empty schema_snapshots table: no hash has a row
NoSnapshots == [h \in SchemaHashes |-> None]

\* Ledger.store_snapshot: INSERT OR REPLACE INTO schema_snapshots
store_snapshot(sn, h, j) == [sn EXCEPT ![h] = j]

\* Ledger.get_snapshot: row[0] if row else None
get_snapshot(sn, h) == IF h \in DOMAIN sn THEN sn[h] ELSE None

\* no uncommitted change
NoTxn == [open |-> FALSE, ledger |-> <<>>, batches |-> <<>>, snapshots |-> NoSnapshots]

\* self._conn.execute(INSERT / DELETE ...), when the statement succeeds:
\* sqlite3 begins a transaction first unless one is open; t keeps the
\* committed rows the file would show if the process died now
execute(t) ==
    IF t.open THEN t
    ELSE [open |-> TRUE, ledger |-> ledger, batches |-> batches, snapshots |-> snapshots]

\* mutant: self._conn.commit() is missing
commit_Missing(t) == t

\* self._conn.commit()
commit(t) == NoTxn

NoReply == [op |-> "none", status |-> "none", value |-> None, issues |-> <<>>]

Reply(op, status, value) == [op |-> op, status |-> status, value |-> value, issues |-> <<>>]

\* ------------------------------------------------------------------------
\* MigrationContext
\* ------------------------------------------------------------------------

\* the batch_id argument of begin_batch
BatchNames == {NoneStr, "", "b1"}

\* `x or y' for strings: None and "" are false
Or(x, y) == IF x = NoneStr \/ x = "" THEN y ELSE x

\* uuid.uuid4().hex[:12]: a fresh identifier, different from the active one
uuid4(c) == IF c.batch_id = "u1" THEN "u2" ELSE "u1"

\* the data argument of the bulk operations: a list of n rows
Datas == {[k \in 1..n |-> k] : n \in 0..MaxRows}

\* the (data, chunk_size, use_call_in_transactions) arguments of the bulk
\* operations; with empty data one chunk size is enough
BulkArgs ==
    {a \in Datas \X (1..MaxChunk) \X BOOLEAN : a[1] = <<>> => a[2] = 1}

\* the data argument of the single-request operations, which look only at
\* its being empty and at its length
SmallDatas == {<<>>, <<1>>, [k \in 1..MaxRows |-> k]}

\* the merge_keys argument
MergeKeys == {<<>>, <<"id">>}

\* operations that build one statement and call _record_and_run;
\* add_node_property with default=None has no statement (cypher = None)
SchemaOps == {"add_unique_constraint", "add_node_property", "delete_nodes_by_batch"}

\* the cypher argument of run_cypher
Cyphers == {"", "RETURN 1"}

\* MigrationContext(driver, dry_run) after __init__; driver "none" is
\* driver=None, "live" is a driver whose session.run returns or raises
Context(driver, dry_run) ==
    [driver |-> driver, dry_run |-> dry_run, batch_id |-> NoneStr, operations |-> <<>>]

\* no MigrationContext exists
NoContext == Context("none", FALSE)

NoJob == [op_type |-> "none"]

\* what a call returned: `value' for a number or None, `batch_id' for the
\* string begin_batch returns
Returned(status, value, batch_id) == [status |-> status, value |-> value, batch_id |-> batch_id]

NoReturn == Returned("none", None, NoneStr)

\* no schema IR function has been given arguments / has returned
NoInput == <<>>

NoResult == [op |-> "none"]

Min(a, b) == IF a <= b THEN a ELSE b

\* mutant: the slice is not limited to chunk_size rows
Slice_ToEnd(data, i, chunk_size) == SubSeq(data, i + 1, Len(data))

\* data[i : i + chunk_size]
Slice(data, i, chunk_size) == SubSeq(data, i + 1, Min(i + chunk_size, Len(data)))

\* the rows of the request being made by job j: the chunk at offset j.i in
\* client-chunked mode, else all of the data
Chunk(j) ==
    IF j.method = "client_chunked" THEN Slice(j.data, j.i, j.chunk_size) ELSE j.data

\* Operation(op_type, details): the audit entry of the request job j is at
\* (count, chunk_index, chunk_size, method, batch_id are keys of details,
\* None when details has no such key)
Operation(j) ==
    [op_type |-> j.op_type,
     count |-> IF j.writes THEN Len(Chunk(j)) ELSE None,
     chunk_index |-> IF j.method = "client_chunked" THEN j.i \div j.chunk_size ELSE None,
     chunk_size |-> IF j.method = "" THEN None ELSE j.chunk_size,
     method |-> j.method,
     batch_id |-> IF j.op_type = "begin_batch" THEN j.batch ELSE NoneStr]

\* session.run(cypher, **params): what the database is sent
Request(j) ==
    [op_type |-> j.op_type,
     rows |-> IF j.writes THEN Chunk(j) ELSE <<>>,
     batch |-> IF j.writes THEN j.batch ELSE NoneStr]

\* the frame of a call: its arguments (writes: a data-writing operation;
\* keyed: it takes merge_keys; has_cypher: its statement is not empty),
\* `batch' and `value' as computed on entry, the loop index i, and `base',
\* len(self.operations) when the call was made
Frame(op_type, writes, keyed, data, merge_keys, chunk_size, method, has_cypher, batch_id) ==
    [op_type |-> op_type, writes |-> writes, keyed |-> keyed, data |-> data,
     merge_keys |-> merge_keys, chunk_size |-> chunk_size, method |-> method,
     has_cypher |-> has_cypher, batch_id |-> batch_id,
     batch |-> NoneStr, value |-> None, i |-> 0, base |-> 0, pos |-> "entry"]

\* the entries of begin_batch calls in the log, and the other entries
IsBegin(entry) == entry.op_type = "begin_batch"

IsStatement(entry) == entry.op_type # "begin_batch"

\* len(range(0, n, chunk_size))
Chunks(n, chunk_size) == (n + chunk_size - 1) \div chunk_size

\* the number of entries a call with frame f appends, if it appends any
Entries(f) ==
    IF f.method = "client_chunked" THEN Chunks(Len(f.data), f.chunk_size) ELSE 1

\* what no MigrationContext operation touches
contextUnchanged == <<files, ledger, pc, call, todo, idx, ids, executed, outcome, ledger0, lost, repeated, discovered, batches, snapshots, txn, reply, created, given, computed, disk, fetchers, report>>

\* mutant: empty merge_keys are not looked at
ReturnsAtOnce_DataOnly(j) == j.writes /\ j.data = <<>>

\* `if not data: return 0' / `if not data or not merge_keys: return 0'
ReturnsAtOnce(j) == j.writes /\ (j.data = <<>> \/ (j.keyed /\ j.merge_keys = <<>>))

\* mutant: the records are never tagged with a batch
ActiveBatch_Untracked(c) == "untracked"

\* batch = self._batch_id or "untracked"
ActiveBatch(c) == Or(c.batch_id, "untracked")

RECURSIVE Sum(_)
Sum(s) == IF s = <<>> THEN 0 ELSE Head(s) + Sum(Tail(s))

\* the number of rows the logged requests carry
Rows(ops) == Sum([k \in DOMAIN ops |-> ops[k].count])

\* An operation of the context is called with frame f, and runs up to its
\* first _record_and_run: the early return of the data operations;
\* begin_batch's assignment self._batch_id = batch_id or uuid...; the batch
\* tag and the return value of a data operation.  No other call is in
\* progress (the context is used by one thread).  The calls of one context
\* are bounded: begin_batch calls by MaxBegins, the entries of the other
\* calls by MaxOps, the rows they carry by MaxRows.
Call(f) ==
    /\ job = NoJob
    /\ IF f.op_type = "begin_batch"
       THEN Len(SelectSeq(ctx.operations, IsBegin)) < MaxBegins
       ELSE /\ Len(SelectSeq(ctx.operations, IsStatement)) + Entries(f) <= MaxOps
            /\ Rows(ctx.operations) + Len(f.data) <= MaxRows
    /\ UNCHANGED db
    /\ IF ReturnsAtOnce(f)
       THEN /\ returned' = Returned("returned", 0, NoneStr)
            /\ UNCHANGED <<ctx, job>>
       ELSE /\ ctx' = IF f.op_type = "begin_batch"
                      THEN [ctx EXCEPT !.batch_id = Or(f.batch_id, uuid4(ctx))]
                      ELSE ctx
            /\ job' = [f EXCEPT !.pos = "record",
                                !.base = Len(ctx.operations),
                                !.batch = IF f.writes THEN ActiveBatch(ctx)
                                          ELSE IF f.op_type = "begin_batch" THEN ctx'.batch_id
                                          ELSE NoneStr,
                                !.value = IF f.writes THEN Len(f.data) ELSE None]
            /\ returned' = NoReturn

\* add_unique_constraint, ..., rename_node_property, delete_nodes_by_batch
SchemaOperation ==
    \E op \in SchemaOps :
        /\ Call(Frame(op, FALSE, FALSE, <<>>, <<>>, None, "", op # "add_node_property", NoneStr))
        /\ UNCHANGED contextUnchanged

\* run_cypher(cypher)
RunCypher ==
    \E cypher \in Cyphers :
        /\ Call(Frame("run_cypher", FALSE, FALSE, <<>>, <<>>, None, "", cypher # "", NoneStr))
        /\ UNCHANGED contextUnchanged

\* begin_batch(batch_id); its _record_and_run has no statement
BeginBatch ==
    \E batch_id \in BatchNames :
        /\ Call(Frame("begin_batch", FALSE, FALSE, <<>>, <<>>, None, "", FALSE, batch_id))
        /\ UNCHANGED contextUnchanged

\* create_nodes(label, data)
CreateNodes ==
    \E data \in SmallDatas :
        /\ Call(Frame("create_nodes", TRUE, FALSE, data, <<>>, None, "", TRUE, NoneStr))
        /\ UNCHANGED contextUnchanged

\* create_relationships(source_label, target_label, rel_type, data)
CreateRelationships ==
    \E data \in SmallDatas :
        /\ Call(Frame("create_relationships", TRUE, FALSE, data, <<>>, None, "", TRUE, NoneStr))
        /\ UNCHANGED contextUnchanged

\* upsert_nodes(label, data, merge_keys)
UpsertNodes ==
    \E data \in SmallDatas, merge_keys \in MergeKeys :
        /\ Call(Frame("upsert_nodes", TRUE, TRUE, data, merge_keys, None, "", TRUE, NoneStr))
        /\ UNCHANGED contextUnchanged

\* upsert_relationships(source_label, target_label, rel_type, data)
UpsertRelationships ==
    \E data \in SmallDatas :
        /\ Call(Frame("upsert_relationships", TRUE, FALSE, data, <<>>, None, "", TRUE, NoneStr))
        /\ UNCHANGED contextUnchanged

\* "CALL_IN_TRANSACTIONS" if use_call_in_transactions else "client_chunked"
Method(use_call_in_transactions) ==
    IF use_call_in_transactions THEN "CALL_IN_TRANSACTIONS" ELSE "client_chunked"

\* bulk_create_nodes(label, data, chunk_size, use_call_in_transactions)
BulkCreateNodes ==
    \E a \in BulkArgs :
        /\ Call(Frame("bulk_create_nodes", TRUE, FALSE, a[1], <<>>, a[2], Method(a[3]), TRUE, NoneStr))
        /\ UNCHANGED contextUnchanged

\* bulk_upsert_nodes(label, data, merge_keys, chunk_size, use_call_in_transactions)
BulkUpsertNodes ==
    \E a \in BulkArgs, merge_keys \in MergeKeys :
        /\ Call(Frame("bulk_upsert_nodes", TRUE, TRUE, a[1], merge_keys, a[2], Method(a[3]), TRUE, NoneStr))
        /\ UNCHANGED contextUnchanged

\* bulk_create_relationships(..., data, chunk_size, use_call_in_transactions)
BulkCreateRelationships ==
    \E a \in BulkArgs :
        /\ Call(Frame("bulk_create_relationships", TRUE, FALSE, a[1], <<>>, a[2], Method(a[3]), TRUE, NoneStr))
        /\ UNCHANGED contextUnchanged

\* after a _record_and_run returned: the next chunk of `for i in range(0,
\* len(data), chunk_size)', or the call returns its value (begin_batch
\* returns self._batch_id, kept in job.batch)
Proceed ==
    IF job.method = "client_chunked" /\ job.i + job.chunk_size < Len(job.data)
    THEN /\ job' = [job EXCEPT !.i = @ + job.chunk_size, !.pos = "record"]
         /\ UNCHANGED returned
    ELSE /\ job' = NoJob
         /\ returned' = IF job.op_type = "begin_batch"
                     THEN Returned("returned", None, job.batch)
                     ELSE Returned("returned", job.value, NoneStr)

\* mutant: nothing is skipped in dry-run or without a driver
Skips_Never(c) == FALSE

\* `if self._dry_run or self._driver is None: return None'
Skips(c) == c.dry_run \/ c.driver = "none"

\* mutant: the entry is not appended when a request is going to be made
RecordOperation_OnlySkipped ==
    /\ job # NoJob /\ job.pos = "record"
    /\ UNCHANGED db
    /\ UNCHANGED contextUnchanged
    /\ IF Skips(ctx) \/ ~job.has_cypher
       THEN /\ ctx' = [ctx EXCEPT !.operations = Append(@, Operation(job))]
            /\ Proceed
       ELSE /\ job' = [job EXCEPT !.pos = "run"]
            /\ UNCHANGED <<ctx, returned>>

\* _record_and_run, lines 512-516: the entry is appended; the request is
\* made only with a live driver, outside dry-run, for a non-empty statement
RecordOperation ==
    /\ job # NoJob /\ job.pos = "record"
    /\ ctx' = [ctx EXCEPT !.operations = Append(@, Operation(job))]
    /\ UNCHANGED db
    /\ UNCHANGED contextUnchanged
    /\ IF Skips(ctx) \/ ~job.has_cypher
       THEN Proceed
       ELSE job' = [job EXCEPT !.pos = "run"] /\ UNCHANGED returned

\* _record_and_run, lines 517-519: session.run(cypher, **params) is called,
\* and returns or raises; an exception leaves the operation call
RunRequest ==
    /\ job # NoJob /\ job.pos = "run"
    /\ db' = Append(db, Request(job))
    /\ UNCHANGED ctx
    /\ UNCHANGED contextUnchanged
    /\ \E ok \in BOOLEAN :
        IF ok THEN Proceed
        ELSE /\ job' = NoJob
             /\ returned' = Returned("raised", None, NoneStr)

\* ------------------------------------------------------------------------
\* Remote fetch: HttpFetcher.fetch, FileCache, fetch_remote
\* ------------------------------------------------------------------------

\* the concurrent fetch_remote calls
Procs == 1..MaxFetches

\* what the remote serves for the URI during one download; the sha256 of a
\* file holding all of "x" is written "x"
Contents == {"x", "y"}

\* source.expected_checksum: None, or the digest of "x"
Checksums == {NoneStr, "x"}

\* tempfile.mkstemp(dir=dest.parent, suffix=".part"): a new name per call
mkstemp(p) == IF p = 1 THEN "tmp1" ELSE "tmp2"

\* dest = target_dir / filename: the calls share dest_dir and the filename
dest == "dest"

\* FileCache._slot: <cache_dir>/<checksum>/<filename>
_slot(checksum) == IF checksum = "x" THEN "slot_x" ELSE "slot_y"

Paths == {mkstemp(p) : p \in Procs} \cup {dest} \cup {_slot(c) : c \in Contents}

\* a path with no file, and a file of chunks of FileChunks or fewer
NoFile == [exists |-> FALSE, chunks |-> <<>>]

Created == [exists |-> TRUE, chunks |-> <<>>]

NoFiles == [path \in Paths |-> NoFile]

\* f.write(chunk) at the file position i of the writer: a position beyond
\* the end of the file leaves a hole
Written(file, i, chunk) ==
    [file EXCEPT !.chunks = [k \in 1..(IF i > Len(file.chunks) THEN i ELSE Len(file.chunks)) |->
                                IF k = i THEN chunk
                                ELSE IF k <= Len(file.chunks) THEN file.chunks[k] ELSE "hole"]]

\* compute_file_checksum: the digest of the bytes the file holds now
compute_file_checksum(file) ==
    IF Len(file.chunks) = FileChunks /\ \A k \in DOMAIN file.chunks : file.chunks[k] = "x" THEN "x"
    ELSE IF Len(file.chunks) = FileChunks /\ \A k \in DOMAIN file.chunks : file.chunks[k] = "y" THEN "y"
    ELSE "other"

\* a fetch_remote call: position, what the remote serves, expected_checksum,
\* chunks written to the open file, the chunks of the file opened for
\* reading, result.checksum, whether the file opened for writing is still
\* the one at its path
Fetch(pos, content, expected, off, src, checksum, linked) ==
    [pc |-> pos, content |-> content, expected |-> expected, off |-> off,
     src |-> src, checksum |-> checksum, linked |-> linked]

NoFetch == Fetch("idle", "", NoneStr, 0, <<>>, "", FALSE)

NoFetchers == [p \in Procs |-> NoFetch]

fetchUnchanged == <<files, ledger, pc, call, todo, idx, ids, executed, outcome, ledger0, lost, repeated, discovered, batches, snapshots, txn, reply, created, ctx, db, job, returned, given, computed, report>>

At(p, pos) == fetchers[p] # NoFetch /\ fetchers[p].pc = pos

Goes(p, pos) == [fetchers EXCEPT ![p].pc = pos]

\* slot.unlink(): the name goes; a copy in progress keeps writing to the
\* file it opened
Unlinked(fs, path) ==
    [q \in Procs |-> IF fs[q].pc = "copy" /\ _slot(fs[q].checksum) = path
                     THEN [fs[q] EXCEPT !.linked = FALSE] ELSE fs[q]]

\* FileCache.lookup: the slot if it exists and its checksum matches; a slot
\* that does not match is removed
lookup(checksum) ==
    IF ~disk[_slot(checksum)].exists THEN "none"
    ELSE IF compute_file_checksum(disk[_slot(checksum)]) # checksum THEN "corrupted"
    ELSE "cached"

\* fetch_remote(source, cache_dir=...): the cache is looked up when
\* expected_checksum is given; a hit returns the cached path
FetchRemote ==
    /\ \E p \in Procs, content \in Contents, expected \in Checksums :
        /\ fetchers[p] = NoFetch
        /\ LET found == IF expected # NoneStr THEN lookup(expected) ELSE "none"
               this == Fetch("fetch", content, expected, 0, <<>>, "", FALSE)
           IN  IF found = "cached"
               THEN /\ fetchers' = [fetchers EXCEPT ![p] = [this EXCEPT !.pc = "returned", !.checksum = expected]]
                    /\ UNCHANGED disk
               ELSE IF found = "corrupted"
               THEN /\ disk' = [disk EXCEPT ![_slot(expected)] = NoFile]
                    /\ fetchers' = [Unlinked(fetchers, _slot(expected)) EXCEPT ![p] = this]
               ELSE /\ fetchers' = [fetchers EXCEPT ![p] = this]
                    /\ UNCHANGED disk
    /\ UNCHANGED fetchUnchanged

\* HttpFetcher.fetch: tempfile.mkstemp in the directory of dest
Mkstemp ==
    /\ \E p \in Procs :
        /\ At(p, "fetch")
        /\ disk' = [disk EXCEPT ![mkstemp(p)] = Created]
        /\ fetchers' = Goes(p, "write")
    /\ UNCHANGED fetchUnchanged

\* HttpFetcher.fetch: one resp.read / f.write round of the download loop
WriteChunk ==
    /\ \E p \in Procs :
        /\ At(p, "write")
        /\ fetchers[p].off < FileChunks
        /\ disk' = [disk EXCEPT ![mkstemp(p)] = Written(@, fetchers[p].off + 1, fetchers[p].content)]
        /\ fetchers' = [fetchers EXCEPT ![p].off = @ + 1]
    /\ UNCHANGED fetchUnchanged

\* shutil.move(tmp_path, dest): a rename within one directory
Move(fs, p) == [fs EXCEPT ![dest] = fs[mkstemp(p)], ![mkstemp(p)] = NoFile]

\* HttpFetcher.fetch: the download is over; the temporary file is renamed
MoveToDest ==
    /\ \E p \in Procs :
        /\ At(p, "write")
        /\ fetchers[p].off = FileChunks
        /\ disk' = Move(disk, p)
        /\ fetchers' = Goes(p, "checksum")
    /\ UNCHANGED fetchUnchanged

\* HttpFetcher.fetch: urlopen or read raises; the temporary file is
\* unlinked and the error goes to the caller
FetchFails ==
    /\ \E p \in Procs :
        /\ At(p, "write")
        /\ disk' = [disk EXCEPT ![mkstemp(p)] = NoFile]
        /\ fetchers' = Goes(p, "raised")
    /\ UNCHANGED fetchUnchanged

\* compute_file_checksum(dest) at the end of fetch, then the verification
\* in fetch_remote: on a mismatch dest is unlinked and IngestError raised
VerifyChecksum ==
    /\ \E p \in Procs :
        /\ At(p, "checksum")
        /\ IF ~disk[dest].exists
           THEN fetchers' = Goes(p, "raised") /\ UNCHANGED disk
           ELSE LET checksum == compute_file_checksum(disk[dest])
                IN  IF fetchers[p].expected # NoneStr /\ checksum # fetchers[p].expected
                    THEN /\ disk' = [disk EXCEPT ![dest] = NoFile]
                         /\ fetchers' = Goes(p, "raised")
                    ELSE /\ fetchers' = [fetchers EXCEPT ![p].pc = "store", ![p].checksum = checksum]
                         /\ UNCHANGED disk
    /\ UNCHANGED fetchUnchanged

\* FileCache.store: shutil.copy2 opens the slot itself for writing, which
\* creates or truncates it
store(fs, p) == [fs EXCEPT ![_slot(fetchers[p].checksum)] = Created]

\* FileCache.store: shutil.copy2(source_path, slot) opens both files
StoreOpen ==
    /\ \E p \in Procs :
        /\ At(p, "store")
        /\ IF ~disk[dest].exists
           THEN fetchers' = Goes(p, "raised") /\ UNCHANGED disk
           ELSE /\ disk' = store(disk, p)
                /\ fetchers' = [fetchers EXCEPT ![p].pc = "copy", ![p].off = 0,
                                                ![p].src = disk[dest].chunks, ![p].linked = TRUE]
    /\ UNCHANGED fetchUnchanged

\* shutil.copy2: one read / write round of the copy
CopyChunk ==
    /\ \E p \in Procs :
        /\ At(p, "copy")
        /\ fetchers[p].off < FileChunks
        /\ disk' = IF fetchers[p].linked
                   THEN [disk EXCEPT ![_slot(fetchers[p].checksum)] =
                            Written(@, fetchers[p].off + 1, fetchers[p].src[fetchers[p].off + 1])]
                   ELSE disk
        /\ fetchers' = [fetchers EXCEPT ![p].off = @ + 1]
    /\ UNCHANGED fetchUnchanged

\* fetch_remote: the copy is over; the staging copy is unlinked and the
\* result names the cached path
Return ==
    /\ \E p \in Procs :
        /\ At(p, "copy")
        /\ fetchers[p].off = FileChunks
        /\ disk' = [disk EXCEPT ![dest] = NoFile]
        /\ fetchers' = Goes(p, "returned")
    /\ UNCHANGED fetchUnchanged

\* the process of a call is interrupted: nothing of the call runs any more
Interrupt ==
    /\ \E p \in Procs :
        /\ fetchers[p].pc \in {"fetch", "write", "checksum", "store", "copy"}
        /\ fetchers' = Goes(p, "interrupted")
        /\ UNCHANGED disk
    /\ UNCHANGED fetchUnchanged

\* ------------------------------------------------------------------------
\* MigrationEngine: status queries
\* ------------------------------------------------------------------------

\* mutant: the ledger is not consulted
pending_migrations_All == discover_migrations

pending_migrations ==
    LET NotApplied(m) == ~is_applied(ledger, m.revision_id)
    IN  SelectSeq(discover_migrations, NotApplied)

\* mutant: the ledger is not consulted
applied_migrations_All == discover_migrations

applied_migrations ==
    LET Applied(m) == is_applied(ledger, m.revision_id)
    IN  SelectSeq(discover_migrations, Applied)

\* ------------------------------------------------------------------------
\* verify_project
\* ------------------------------------------------------------------------

\* CheckResult(name, passed, details)
CheckResult(name, passed, details) == [name |-> name, passed |-> passed, details |-> details]

\* VerificationReport(checks); passed is all(c.passed for c in self.checks)
VerificationReport(checks) ==
    [checks |-> checks, passed |-> \A k \in DOMAIN checks : checks[k].passed]

NoReport == VerificationReport(<<>>)

\* _check_ledger_chain: the issues of ledger.verify_chain()
_check_ledger_chain ==
    LET issues == verify_chain(ledger)
    IN  CheckResult("Ledger chain integrity", issues = <<>>, issues)

\* _check_migration_files_match_ledger: the applied migrations whose
\* revision_id is not that of a discovered file
_check_migration_files_match_ledger ==
    LET discovered_ids == Range(RevIds(discover_migrations))
        Missing(am) == am.revision_id \notin discovered_ids
        missing == SelectSeq(get_applied_migrations(ledger), Missing)
    IN  CheckResult("Migration files present", missing = <<>>, RevIds(missing))

\* mutant: pending migrations are listed but the check passes
_check_no_pending_Passes ==
    CheckResult("No pending migrations", TRUE, RevIds(pending_migrations))

\* _check_no_pending
_check_no_pending ==
    CheckResult("No pending migrations", pending_migrations = <<>>, RevIds(pending_migrations))

\* _check_schema_hashes: the discovered files whose non-empty schema_hash is
\* not the one of the ledger row of the same revision_id
_check_schema_hashes ==
    LET Mismatch(mf) == \E i \in DOMAIN ledger :
                            /\ ledger[i].revision_id = mf.revision_id
                            /\ mf.schema_hash # ""
                            /\ ledger[i].schema_hash # mf.schema_hash
        issues == SelectSeq(discover_migrations, Mismatch)
    IN  CheckResult("Schema hash consistency", issues = <<>>, RevIds(issues))

\* verify_project(config, ledger) with no driver: the four checks in order
verify_project ==
    VerificationReport(<<_check_ledger_chain, _check_migration_files_match_ledger,
                         _check_no_pending, _check_schema_hashes>>)

\* ------------------------------------------------------------------------
\* MigrationEngine.upgrade / _apply_one / downgrade, step by step
\* ------------------------------------------------------------------------

NoCall == [op |-> "none", target |-> None, dry_run |-> FALSE]

NoOutcome == [status |-> "none", revision_id |-> None, ids |-> <<>>]

Running == [status |-> "running", revision_id |-> None, ids |-> <<>>]

Targets == Revs \cup {None}

\* the migration the running call is processing
cur == todo[idx]

\* `if target and mf.revision_id == target'
TargetHit(mf) == call.target # None /\ mf.revision_id = call.target

\* mutant: the dry_run test is missing
WritesLedger_Always == TRUE

\* `if not dry_run:' before record_migration / remove_migration
WritesLedger == ~call.dry_run

\* mutant: the rollback_safe test is missing
RollbackBlocked_Never(mf) == FALSE

\* `if not mf.rollback_safe: raise RollbackUnsafeError(mf.revision_id)'
RollbackBlocked(mf) == ~mf.rollback_safe

\* one entry of the log of invoked bodies: mf.upgrade(ctx) / mf.downgrade(ctx)
\* returned (ok) or raised
Body(mf, op, ok) == [revision_id |-> mf.revision_id, op |-> op, ok |-> ok]

\* The call ends: it returns (status "returned", with its result list) or
\* raises (any other status, naming revision rev).  The locals of the call
\* are gone; what its bodies did (executed) is not.
Finish(status, rev, result) ==
    /\ pc' = "idle"
    /\ outcome' = [status |-> status, revision_id |-> rev, ids |-> result]
    /\ todo' = <<>>
    /\ idx' = 1
    /\ ids' = <<>>
    /\ ledger0' = <<>>

\* A call begins with the list it will iterate over; an empty list makes it
\* return [] at once (`if not pending: return []').
Begin(op, target, dry_run, list, first) ==
    /\ pc = "idle"
    /\ call' = [op |-> op, target |-> target, dry_run |-> dry_run]
    /\ repeated' = (call' = call /\ outcome.status = "returned")
    /\ executed' = <<>>
    /\ IF list = <<>>
       THEN Finish("returned", None, <<>>)
       ELSE /\ pc' = first
            /\ outcome' = Running
            /\ todo' = list
            /\ idx' = 1
            /\ ids' = <<>>
            /\ ledger0' = ledger

\* the call goes on to position p, migration i
Goto(p, i, result) ==
    /\ pc' = p
    /\ idx' = i
    /\ ids' = result
    /\ UNCHANGED <<todo, ledger0, outcome>>

\* upgrade(), lines 200-204: pending = self.pending_migrations()
UpgradeCall ==
    \E target \in Targets, dry_run \in BOOLEAN :
        /\ Begin("upgrade", target, dry_run, pending_migrations, "upgrade_body")
        /\ UNCHANGED <<files, ledger, lost, discovered, batches, snapshots, txn, reply, created, ctx, db, job, returned, given, computed, disk, fetchers, report>>

\* the rest of one loop iteration of upgrade(), after _apply_one returned:
\* applied_ids.append, break on the target, else the next pending migration
UpgradeAdvance ==
    LET result == Append(ids, cur.revision_id)
    IN  IF TargetHit(cur) \/ idx = Len(todo)
        THEN Finish("returned", None, result)
        ELSE Goto("upgrade_body", idx + 1, result)

\* mutant: an exception of the upgrade body is swallowed
UpgradeBody_Swallows ==
    /\ pc = "upgrade_body"
    /\ \E ok \in BOOLEAN :
        /\ executed' = Append(executed, Body(cur, "upgrade", ok))
        /\ IF WritesLedger
           THEN Goto("upgrade_record", idx, ids)
           ELSE UpgradeAdvance
    /\ UNCHANGED <<files, ledger, call, lost, repeated, discovered, batches, snapshots, txn, reply, created, ctx, db, job, returned, given, computed, disk, fetchers, report>>

\* mutant: the ledger row is written before the upgrade body runs
UpgradeBody_RecordsFirst ==
    /\ pc = "upgrade_body"
    /\ IF WritesLedger /\ ~is_applied(ledger, cur.revision_id)
       THEN /\ ledger' = record_migration(ledger, Row(cur))
            /\ UNCHANGED <<pc, todo, idx, ids, executed, outcome, ledger0>>
       ELSE /\ ledger' = ledger
            /\ \E ok \in BOOLEAN :
                /\ executed' = Append(executed, Body(cur, "upgrade", ok))
                /\ IF ~ok
                   THEN Finish("MigrationError", cur.revision_id, <<>>)
                   ELSE UpgradeAdvance
    /\ UNCHANGED <<files, call, lost, repeated, discovered, batches, snapshots, txn, reply, created, ctx, db, job, returned, given, computed, disk, fetchers, report>>

\* _apply_one, lines 220-226: mf.upgrade(ctx) returns or raises
UpgradeBody ==
    /\ pc = "upgrade_body"
    /\ \E ok \in BOOLEAN :
        /\ executed' = Append(executed, Body(cur, "upgrade", ok))
        /\ IF ~ok
           THEN Finish("MigrationError", cur.revision_id, <<>>)
           ELSE IF WritesLedger
                THEN Goto("upgrade_record", idx, ids)
                ELSE UpgradeAdvance
    /\ UNCHANGED <<files, ledger, call, lost, repeated, discovered, batches, snapshots, txn, reply, created, ctx, db, job, returned, given, computed, disk, fetchers, report>>

\* _apply_one, lines 228-235: self._ledger.record_migration(...), then the
\* rest of the loop iteration
UpgradeRecord ==
    /\ pc = "upgrade_record"
    /\ IF is_applied(ledger, cur.revision_id)
       THEN /\ Finish("LedgerError", cur.revision_id, <<>>)
            /\ UNCHANGED <<ledger, lost>>
       ELSE /\ ledger' = record_migration(ledger, Row(cur))
            /\ lost' = IF lost = cur.revision_id THEN None ELSE lost
            /\ UpgradeAdvance
    /\ UNCHANGED <<files, call, executed, repeated, discovered, batches, snapshots, txn, reply, created, ctx, db, job, returned, given, computed, disk, fetchers, report>>

\* downgrade(), lines 251-255: applied = list(reversed(self.applied_migrations()))
DowngradeCall ==
    \E target \in Targets, dry_run \in BOOLEAN :
        /\ Begin("downgrade", target, dry_run, Reverse(applied_migrations), "downgrade_body")
        /\ UNCHANGED <<files, ledger, lost, discovered, batches, snapshots, txn, reply, created, ctx, db, job, returned, given, computed, disk, fetchers, report>>

\* lines 273-279: reverted_ids.append; `if target is None: break'; next mf
DowngradeAdvance ==
    LET result == Append(ids, cur.revision_id)
    IN  IF call.target = None \/ idx = Len(todo)
        THEN Finish("returned", None, result)
        ELSE Goto("downgrade_body", idx + 1, result)

\* mutant: an exception of the downgrade body is swallowed
DowngradeBody_Swallows ==
    /\ pc = "downgrade_body"
    /\ IF TargetHit(cur)
       THEN Finish("returned", None, ids) /\ UNCHANGED executed
       ELSE IF RollbackBlocked(cur)
       THEN Finish("RollbackUnsafeError", cur.revision_id, <<>>) /\ UNCHANGED executed
       ELSE \E ok \in BOOLEAN :
            /\ executed' = Append(executed, Body(cur, "downgrade", ok))
            /\ IF WritesLedger
               THEN Goto("downgrade_remove", idx, ids)
               ELSE DowngradeAdvance
    /\ UNCHANGED <<files, ledger, call, lost, repeated, discovered, batches, snapshots, txn, reply, created, ctx, db, job, returned, given, computed, disk, fetchers, report>>

\* lines 256-268: the target test, the rollback_safe test, mf.downgrade(ctx)
DowngradeBody ==
    /\ pc = "downgrade_body"
    /\ IF TargetHit(cur)
       THEN Finish("returned", None, ids) /\ UNCHANGED executed
       ELSE IF RollbackBlocked(cur)
       THEN Finish("RollbackUnsafeError", cur.revision_id, <<>>) /\ UNCHANGED executed
       ELSE \E ok \in BOOLEAN :
            /\ executed' = Append(executed, Body(cur, "downgrade", ok))
            /\ IF ~ok
               THEN Finish("MigrationError", cur.revision_id, <<>>)
               ELSE IF WritesLedger
                    THEN Goto("downgrade_remove", idx, ids)
                    ELSE DowngradeAdvance
    /\ UNCHANGED <<files, ledger, call, lost, repeated, discovered, batches, snapshots, txn, reply, created, ctx, db, job, returned, given, computed, disk, fetchers, report>>

\* lines 270-279: self._ledger.remove_migration(mf.revision_id), then the rest
\* of the loop iteration
DowngradeRemove ==
    /\ pc = "downgrade_remove"
    /\ IF Referenced(batches, cur.revision_id)
       THEN /\ Finish("IntegrityError", cur.revision_id, <<>>)
            /\ UNCHANGED ledger
       ELSE /\ ledger' = remove_migration(ledger, cur.revision_id)
            /\ DowngradeAdvance
    /\ UNCHANGED <<files, call, executed, lost, repeated, discovered, batches, snapshots, txn, reply, created, ctx, db, job, returned, given, computed, disk, fetchers, report>>

\* The process dies inside a call.  The ledger keeps exactly the rows whose
\* INSERT / DELETE was committed; everything in memory is gone, the call and
\* its log included.  A crash at "upgrade_record" is the window between a
\* completed upgrade body and the commit of its ledger row.
Crash ==
    /\ pc # "idle"
    /\ Finish("crashed", None, <<>>)
    /\ lost' = IF pc = "upgrade_record" THEN cur.revision_id ELSE lost
    /\ call' = NoCall
    /\ executed' = <<>>
    /\ repeated' = FALSE
    /\ UNCHANGED <<files, ledger, discovered, batches, snapshots, txn, reply, created, ctx, db, job, returned, given, computed, disk, fetchers, report>>

\* ------------------------------------------------------------------------
\* Direct calls of the Ledger
\* ------------------------------------------------------------------------

engineVars == <<files, pc, call, todo, idx, ids, executed, outcome, ledger0, lost, repeated, discovered, created, ctx, db, job, returned, given, computed, disk, fetchers, report>>

\* mutant: INSERT OR REPLACE INTO applied_migrations
RecordMigration_Replaces ==
    \E r \in LedgerRevs, parent \in LedgerParents, safe \in BOOLEAN :
        /\ pc = "idle"
        /\ now(ledger) <= MaxClock
        /\ ledger' = record_migration(remove_migration(ledger, r), [revision_id |-> r, parent_id |-> parent, rollback_safe |-> safe])
        /\ txn' = commit(execute(txn))
        /\ reply' = Reply("record_migration", "returned", r)
        /\ UNCHANGED <<batches, snapshots>>
        /\ UNCHANGED engineVars

\* ledger.record_migration(r, parent, ..., safe)
RecordMigration ==
    \E r \in LedgerRevs, parent \in LedgerParents, safe \in BOOLEAN :
        /\ pc = "idle"
        /\ now(ledger) <= MaxClock
        /\ IF is_applied(ledger, r)
           THEN /\ reply' = Reply("record_migration", "already recorded", r)
                /\ UNCHANGED <<ledger, txn>>
           ELSE /\ ledger' = record_migration(ledger, [revision_id |-> r, parent_id |-> parent, rollback_safe |-> safe])
                /\ txn' = commit(execute(txn))
                /\ reply' = Reply("record_migration", "returned", r)
        /\ UNCHANGED <<batches, snapshots>>
        /\ UNCHANGED engineVars

\* ledger.remove_migration(r): the DELETE raises sqlite3.IntegrityError, which
\* nothing catches, while a batch row refers to r
RemoveMigration ==
    \E r \in LedgerRevs :
        /\ pc = "idle"
        /\ IF Referenced(batches, r)
           THEN /\ reply' = Reply("remove_migration", "IntegrityError", r)
                /\ UNCHANGED <<ledger, txn>>
           ELSE /\ ledger' = remove_migration(ledger, r)
                /\ txn' = commit(execute(txn))
                /\ reply' = Reply("remove_migration", "returned", r)
        /\ UNCHANGED <<batches, snapshots>>
        /\ UNCHANGED engineVars

\* ledger.record_batch(b, migration_id=m): every sqlite3.IntegrityError is
\* re-raised as LedgerError("Batch ... is already recorded in the ledger.")
RecordBatchCall(b, m) ==
    /\ pc = "idle"
    /\ now(batches) <= MaxClock
    /\ IF IntegrityError_OnInsert(ledger, batches, b, m)
       THEN /\ reply' = Reply("record_batch", "already recorded", b)
            /\ UNCHANGED <<batches, txn>>
       ELSE /\ batches' = record_batch(batches, b, m)
            /\ txn' = commit(execute(txn))
            /\ reply' = Reply("record_batch", "returned", b)
    /\ UNCHANGED <<ledger, snapshots>>
    /\ UNCHANGED engineVars

RecordBatch ==
    \E b \in BatchIds, m \in LedgerParents : RecordBatchCall(b, m)

\* IngestTracker.register_batch(migration_id=m) between two engine calls:
\* bid = uuid.uuid4().hex[:12] is an id no stored batch has
RegisterBatch ==
    \E m \in Targets :
        /\ Len(batches) < MaxBatches
        /\ RecordBatchCall(Len(batches) + 1, m)

\* ledger.remove_batch(b)
RemoveBatch ==
    \E b \in BatchIds :
        /\ pc = "idle"
        /\ batches' = remove_batch(batches, b)
        /\ txn' = commit(execute(txn))
        /\ reply' = Reply("remove_batch", "returned", b)
        /\ UNCHANGED <<ledger, snapshots>>
        /\ UNCHANGED engineVars

\* ledger.store_snapshot(h, j)
StoreSnapshot ==
    \E h \in Hashes, j \in Jsons :
        /\ pc = "idle"
        /\ snapshots' = store_snapshot(snapshots, h, j)
        /\ txn' = commit(execute(txn))
        /\ reply' = Reply("store_snapshot", "returned", h)
        /\ UNCHANGED <<ledger, batches>>
        /\ UNCHANGED engineVars

\* ledger.verify_chain()
VerifyChain ==
    /\ pc = "idle"
    /\ reply' = [Reply("verify_chain", "returned", None) EXCEPT !.issues = verify_chain(ledger)]
    /\ UNCHANGED <<ledger, batches, snapshots, txn>>
    /\ UNCHANGED engineVars

\* The process dies between two calls and the ledger file is opened again
\* (Ledger.__init__): the new connection sees the committed rows only.
Reopen ==
    /\ pc = "idle"
    /\ ledger' = IF txn.open THEN txn.ledger ELSE ledger
    /\ batches' = IF txn.open THEN txn.batches ELSE batches
    /\ snapshots' = IF txn.open THEN txn.snapshots ELSE snapshots
    /\ txn' = NoTxn
    /\ reply' = Reply("reopen", "returned", None)
    /\ UNCHANGED engineVars

InitLedger ==
    /\ files = <<>>
    /\ ledger = <<>>
    /\ pc = "idle"
    /\ call = NoCall
    /\ todo = <<>>
    /\ idx = 1
    /\ ids = <<>>
    /\ executed = <<>>
    /\ outcome = NoOutcome
    /\ ledger0 = <<>>
    /\ lost = None
    /\ repeated = FALSE
    /\ discovered = <<>>
    /\ batches = <<>>
    /\ snapshots = NoSnapshots
    /\ txn = NoTxn
    /\ reply = NoReply
    /\ created = <<>>
    /\ ctx = NoContext
    /\ db = <<>>
    /\ job = NoJob
    /\ returned = NoReturn
    /\ given = NoInput
    /\ computed = NoResult
    /\ disk = NoFiles
    /\ fetchers = NoFetchers
    /\ report = NoReport

NextLedger ==
    \/ RecordMigration
    \/ RemoveMigration
    \/ RecordBatch
    \/ RemoveBatch
    \/ StoreSnapshot
    \/ VerifyChain
    \/ Reopen

SpecLedger == InitLedger /\ [][NextLedger]_vars

\* ------------------------------------------------------------------------
\* Specification of the engine over a well-formed linear chain
\* ------------------------------------------------------------------------

RECURSIVE Perms(_)
Perms(S) ==
    IF S = {} THEN {<<>>}
    ELSE UNION {{<<x>> \o p : p \in Perms(S \ {x})} : x \in S}

\* The chain 1 <- 2 <- ... <- n (revision k has parent k-1, revision 1 is the
\* root), with any rollback_safe flags, stored under file names that sort in
\* any order.
ChainFile(k, safe) == [revision_id |-> k, parent_id |-> IF k = 1 THEN None ELSE k - 1, rollback_safe |-> safe[k]]

LinearChains ==
    UNION {{[i \in 1..n |-> ChainFile(p[i], safe)] : p \in Perms(1..n), safe \in [1..n -> BOOLEAN]} : n \in 0..MaxFiles}

Init ==
    /\ files \in LinearChains
    /\ ledger = <<>>
    /\ pc = "idle"
    /\ call = NoCall
    /\ todo = <<>>
    /\ idx = 1
    /\ ids = <<>>
    /\ executed = <<>>
    /\ outcome = NoOutcome
    /\ ledger0 = <<>>
    /\ lost = None
    /\ repeated = FALSE
    /\ discovered = <<>>
    /\ batches = <<>>
    /\ snapshots = NoSnapshots
    /\ txn = NoTxn
    /\ reply = NoReply
    /\ created = <<>>
    /\ ctx = NoContext
    /\ db = <<>>
    /\ job = NoJob
    /\ returned = NoReturn
    /\ given = NoInput
    /\ computed = NoResult
    /\ disk = NoFiles
    /\ fetchers = NoFetchers
    /\ report = NoReport

Next ==
    \/ UpgradeCall
    \/ UpgradeBody
    \/ UpgradeRecord
    \/ DowngradeCall
    \/ DowngradeBody
    \/ DowngradeRemove
    \/ Crash

Spec == Init /\ [][Next]_vars

\* ------------------------------------------------------------------------
\* Specification of the engine beside an ingest that registers batches
\* ------------------------------------------------------------------------

\* the chains of LinearChains whose file names sort in chain order
NamedInOrder == {fs \in LinearChains : \A i \in DOMAIN fs : fs[i].revision_id = i}

InitBatch ==
    /\ files \in NamedInOrder
    /\ ledger = <<>>
    /\ pc = "idle"
    /\ call = NoCall
    /\ todo = <<>>
    /\ idx = 1
    /\ ids = <<>>
    /\ executed = <<>>
    /\ outcome = NoOutcome
    /\ ledger0 = <<>>
    /\ lost = None
    /\ repeated = FALSE
    /\ discovered = <<>>
    /\ batches = <<>>
    /\ snapshots = NoSnapshots
    /\ txn = NoTxn
    /\ reply = NoReply
    /\ created = <<>>
    /\ ctx = NoContext
    /\ db = <<>>
    /\ job = NoJob
    /\ returned = NoReturn
    /\ given = NoInput
    /\ computed = NoResult
    /\ disk = NoFiles
    /\ fetchers = NoFetchers
    /\ report = NoReport

NextBatch ==
    \/ UpgradeCall
    \/ UpgradeBody
    \/ UpgradeRecord
    \/ DowngradeCall
    \/ DowngradeBody
    \/ DowngradeRemove
    \/ Crash
    \/ RegisterBatch

SpecBatch == InitBatch /\ [][NextBatch]_vars

\* ------------------------------------------------------------------------
\* Specification of discover_migrations over arbitrary migration files
\* ------------------------------------------------------------------------

AnyFiles ==
    UNION {[1..n -> [revision_id : Revs, parent_id : Revs \cup {None}, rollback_safe : {TRUE}]] : n \in 0..MaxFiles}

InitSort ==
    /\ files \in AnyFiles
    /\ ledger = <<>>
    /\ pc = "idle"
    /\ call = NoCall
    /\ todo = <<>>
    /\ idx = 1
    /\ ids = <<>>
    /\ executed = <<>>
    /\ outcome = NoOutcome
    /\ ledger0 = <<>>
    /\ lost = None
    /\ repeated = FALSE
    /\ discovered = <<>>
    /\ batches = <<>>
    /\ snapshots = NoSnapshots
    /\ txn = NoTxn
    /\ reply = NoReply
    /\ created = <<>>
    /\ ctx = NoContext
    /\ db = <<>>
    /\ job = NoJob
    /\ returned = NoReturn
    /\ given = NoInput
    /\ computed = NoResult
    /\ disk = NoFiles
    /\ fetchers = NoFetchers
    /\ report = NoReport

\* engine.discover_migrations() is called once
Discover ==
    /\ pc = "idle"
    /\ pc' = "discovered"
    /\ discovered' = discover_migrations
    /\ UNCHANGED <<files, ledger, call, todo, idx, ids, executed, outcome, ledger0, lost, repeated, batches, snapshots, txn, reply, created, ctx, db, job, returned, given, computed, disk, fetchers, report>>

NextSort == Discover

SpecSort == InitSort /\ [][NextSort]_vars

\* ------------------------------------------------------------------------
\* Migration file scaffolding
\* ------------------------------------------------------------------------

Descriptions == {"initial setup", "Add Person!"}

\* slugify: lower case, runs of other characters become "_", stripped of "_"
slugify(text) ==
    CASE text = "initial setup" -> "initial_setup"
      [] text = "Add Person!" -> "add_person"

\* generate_revision_id: f"{seq:04d}_{slug}".  The zero-padded sequence
\* number orders the file names as the numbers are ordered; it is kept as the
\* number, the slug beside it.
generate_revision_id(seq, description) == [seq |-> seq, slug |-> slugify(description)]

\* one line of a generated body: ctx.<op>("<label>", "<property>")
Line(op, label, property) == [op |-> op, label |-> label, property |-> property]

\* one upgrade line with its downgrade line, or none of either
Lines(wanted, upgrade_op, downgrade_op, label, property) ==
    IF wanted
    THEN [upgrade |-> <<Line(upgrade_op, label, property)>>, downgrade |-> <<Line(downgrade_op, label, property)>>]
    ELSE [upgrade |-> <<>>, downgrade |-> <<>>]

\* upgrade_lines and downgrade_lines after both got the lines of `more'
Extend(lines, more) ==
    [upgrade |-> lines.upgrade \o more.upgrade, downgrade |-> lines.downgrade \o more.downgrade]

\* the lines for the constraints and the index of an added property
\* (adding = TRUE) or of a removed one: unique_index, elif index, then
\* required
FlagLines(p, adding, label, name) ==
    LET add(op) == IF adding THEN "add_" \o op ELSE "drop_" \o op
        drop(op) == IF adding THEN "drop_" \o op ELSE "add_" \o op
    IN  Extend(Extend(Lines(p.unique_index, add("unique_constraint"), drop("unique_constraint"), label, name),
                      Lines(~p.unique_index /\ p.index, add("index"), drop("index"), label, name)),
               Lines(p.required, add("node_property_existence_constraint"),
                     drop("node_property_existence_constraint"), label, name))

\* the lines for one flag of a modified property: none if the flag is as
\* it was
ChangedFlagLines(old_flag, new_flag, op, label, name) ==
    IF new_flag
    THEN Lines(old_flag # new_flag, "add_" \o op, "drop_" \o op, label, name)
    ELSE Lines(old_flag # new_flag, "drop_" \o op, "add_" \o op, label, name)

\* the property-change branches of generate_operations_from_diff; the result
\* is the pair of lines appended to upgrade_lines and to downgrade_lines
PropertyLines(change, label) ==
    LET name == change.property_name
    IN  IF change.kind = "added"
        THEN Extend(Lines(TRUE, "add_node_property", "remove_node_property", label, name),
                    FlagLines(change.new, TRUE, label, name))
        ELSE IF change.kind = "removed"
        THEN Extend(Lines(TRUE, "remove_node_property", "add_node_property", label, name),
                    FlagLines(change.old, FALSE, label, name))
        ELSE Extend(Extend(ChangedFlagLines(change.old.unique_index, change.new.unique_index,
                                            "unique_constraint", label, name),
                           ChangedFlagLines(change.old.index, change.new.index, "index", label, name)),
                    ChangedFlagLines(change.old.required, change.new.required,
                                     "node_property_existence_constraint", label, name))

\* for pc in nc.property_changes
RECURSIVE AllPropertyLines(_, _)
AllPropertyLines(pcs, label) ==
    IF pcs = <<>> THEN [upgrade |-> <<>>, downgrade |-> <<>>]
    ELSE LET first == PropertyLines(Head(pcs), label)
             rest == AllPropertyLines(Tail(pcs), label)
         IN  [upgrade |-> first.upgrade \o rest.upgrade,
              downgrade |-> first.downgrade \o rest.downgrade]

\* the branches of generate_operations_from_diff for one node change: a
\* "# TODO" comment on both sides for an added or a removed node; for a
\* modified one the rename_label lines, then the lines of its property
\* changes, all with the new label
NodeLines(nc) ==
    IF nc.kind = "added" THEN Lines(TRUE, "# TODO", "# TODO", nc.new.label, nc.kgid)
    ELSE IF nc.kind = "removed" THEN Lines(TRUE, "# TODO", "# TODO", nc.old.label, nc.kgid)
    ELSE Extend(IF nc.label_renamed
                THEN [upgrade |-> <<Line("rename_label", nc.old.label, nc.new.label)>>,
                      downgrade |-> <<Line("rename_label", nc.new.label, nc.old.label)>>]
                ELSE [upgrade |-> <<>>, downgrade |-> <<>>],
                AllPropertyLines(nc.property_changes, nc.new.label))

\* the body "    pass"
Pass == <<>>

\* generate_operations_from_diff: the upgrade and downgrade code, as the
\* lists of calls the bodies make (an empty list is `pass')
RECURSIVE generate_operations_from_diff(_)
generate_operations_from_diff(ncs) ==
    IF ncs = <<>> THEN [upgrade |-> Pass, downgrade |-> Pass]
    ELSE LET first == NodeLines(Head(ncs))
             rest == generate_operations_from_diff(Tail(ncs))
         IN  [upgrade |-> first.upgrade \o rest.upgrade,
              downgrade |-> first.downgrade \o rest.downgrade]

\* the part of a graph that holds one node class: the label its nodes
\* carry, the property keys they hold, and the constraints and indexes in
\* the database, each known by its name
Graph(label, properties, constraints, indexes) ==
    [label |-> label, properties |-> properties, constraints |-> constraints, indexes |-> indexes]

\* crochet_uniq_{label}_{property_name}, crochet_exists_..., crochet_idx_...
constraint_name(kind, label, property_name) == [kind |-> kind, label |-> label, property |-> property_name]

\* what the Cypher statement of one generated call does to the graph; a
\* "# TODO" comment and add_node_property with no default run nothing
run(graph, line) ==
    IF line.op = "rename_label"
    THEN IF graph.label = line.label THEN [graph EXCEPT !.label = line.property] ELSE graph
    ELSE IF line.op = "remove_node_property"
    THEN IF graph.label = line.label THEN [graph EXCEPT !.properties = @ \ {line.property}] ELSE graph
    ELSE IF line.op = "add_unique_constraint"
    THEN [graph EXCEPT !.constraints = @ \cup {constraint_name("uniq", line.label, line.property)}]
    ELSE IF line.op = "drop_unique_constraint"
    THEN [graph EXCEPT !.constraints = @ \ {constraint_name("uniq", line.label, line.property)}]
    ELSE IF line.op = "add_node_property_existence_constraint"
    THEN [graph EXCEPT !.constraints = @ \cup {constraint_name("exists", line.label, line.property)}]
    ELSE IF line.op = "drop_node_property_existence_constraint"
    THEN [graph EXCEPT !.constraints = @ \ {constraint_name("exists", line.label, line.property)}]
    ELSE IF line.op = "add_index"
    THEN [graph EXCEPT !.indexes = @ \cup {constraint_name("idx", line.label, line.property)}]
    ELSE IF line.op = "drop_index"
    THEN [graph EXCEPT !.indexes = @ \ {constraint_name("idx", line.label, line.property)}]
    ELSE graph

\* a body is run: its calls in order
RECURSIVE run_body(_, _)
run_body(graph, lines) ==
    IF lines = <<>> THEN graph ELSE run_body(run(graph, Head(lines)), Tail(lines))

\* the graph of a node class as the generated calls build it: its nodes
\* carry the label and hold the properties; a unique_index property has
\* its uniqueness constraint, else an index property its index, and a
\* required property its existence constraint
graph_of(node) ==
    LET ps == node.properties
        Flagged(kind) == {constraint_name(kind, node.label, ps[i].name) : i \in
                            {k \in DOMAIN ps : IF kind = "uniq" THEN ps[k].unique_index
                                               ELSE IF kind = "idx" THEN ~ps[k].unique_index /\ ps[k].index
                                               ELSE ps[k].required}}
    IN  Graph(node.label, {ps[i].name : i \in DOMAIN ps}, Flagged("uniq") \cup Flagged("exists"), Flagged("idx"))

\* render_migration: the module the template renders; `comment' tells that
\* the bodies start with the "Detected schema changes" comment
render_migration(revision_id, parent_id, description, schema_hash, rollback_safe, diff_summary, diff) ==
    LET code == IF ~diff.is_none /\ has_changes(diff)
                THEN generate_operations_from_diff(diff.node_changes)
                ELSE [upgrade |-> Pass, downgrade |-> Pass]
    IN  [revision_id |-> revision_id.seq, slug |-> revision_id.slug,
         parent_id |-> parent_id, description |-> description,
         schema_hash |-> schema_hash,
         rollback_safe |-> rollback_safe,
         comment |-> (diff_summary # ""),
         upgrade_body |-> code.upgrade, downgrade_body |-> code.downgrade]

\* write_migration_file: file_path.write_text(content) replaces a file of
\* the same name; the directory is listed in file name order
write_migration_file(fs, f) ==
    LET OtherName(g) == ~(g.revision_id = f.revision_id /\ g.slug = f.slug)
    IN  SortedByRevision(Append(SelectSeq(fs, OtherName), f))

\* mutant: the parent is the first migration of the chain
parent_id_of_First(all_migrations) ==
    IF all_migrations = <<>> THEN None ELSE Head(all_migrations).revision_id

\* create_migration, lines 147-149: parent_id = all_migrations[-1].revision_id
parent_id_of(all_migrations) ==
    IF all_migrations = <<>> THEN None ELSE Last(all_migrations).revision_id

\* create_migration, lines 154-171: schema_hash and diff_summary; sn is the
\* snapshot table after store_snapshot
diff_summary_of(all_migrations, current_snapshot, sn) ==
    IF current_snapshot = NoSnapshot \/ all_migrations = <<>> THEN ""
    ELSE LET prev_hash == Last(all_migrations).schema_hash
             prev_json == get_snapshot(sn, prev_hash)
         IN  IF prev_json = None THEN ""
             ELSE LET diff == diff_snapshots(from_json(Document(prev_json)), current_snapshot)
                  IN  IF has_changes(diff) THEN summary(diff) ELSE ""

\* MigrationEngine.create_migration: the module written to the migrations
\* directory.  render_migration is called without diff=, so diff is None.
create_migration(description, current_snapshot, rollback_safe, sn) ==
    LET all_migrations == discover_migrations
        seq == Len(all_migrations) + 1
        schema_hash == IF current_snapshot = NoSnapshot THEN "" ELSE compute_hash(current_snapshot)
    IN  render_migration(generate_revision_id(seq, description),
                         parent_id_of(all_migrations), description,
                         schema_hash, rollback_safe,
                         diff_summary_of(all_migrations, current_snapshot, sn),
                         NoDiff)

\* engine.create_migration(description, current_snapshot) is called, with
\* the default rollback_safe=True
CreateMigration ==
    \E description \in Descriptions, current_snapshot \in Snapshots \cup {NoSnapshot} :
        /\ pc = "idle"
        /\ Len(files) < MaxFiles
        /\ snapshots' = IF current_snapshot = NoSnapshot THEN snapshots
                        ELSE store_snapshot(snapshots, compute_hash(current_snapshot), JsonNumber(to_json(current_snapshot)))
        /\ txn' = IF current_snapshot = NoSnapshot THEN txn ELSE commit(execute(txn))
        /\ LET f == create_migration(description, current_snapshot, TRUE, snapshots')
           IN  /\ files' = write_migration_file(files, f)
               /\ created' = Append(created, f)
        /\ UNCHANGED <<ledger, pc, call, todo, idx, ids, executed, outcome, ledger0, lost, repeated, discovered, batches, reply, ctx, db, job, returned, given, computed, disk, fetchers, report>>

\* ------------------------------------------------------------------------
\* Specification of create_migration from an empty migrations directory,
\* followed by upgrade
\* ------------------------------------------------------------------------

InitCreate ==
    /\ files = <<>>
    /\ ledger = <<>>
    /\ pc = "idle"
    /\ call = NoCall
    /\ todo = <<>>
    /\ idx = 1
    /\ ids = <<>>
    /\ executed = <<>>
    /\ outcome = NoOutcome
    /\ ledger0 = <<>>
    /\ lost = None
    /\ repeated = FALSE
    /\ discovered = <<>>
    /\ batches = <<>>
    /\ snapshots = NoSnapshots
    /\ txn = NoTxn
    /\ reply = NoReply
    /\ created = <<>>
    /\ ctx = NoContext
    /\ db = <<>>
    /\ job = NoJob
    /\ returned = NoReturn
    /\ given = NoInput
    /\ computed = NoResult
    /\ disk = NoFiles
    /\ fetchers = NoFetchers
    /\ report = NoReport

\* engine.upgrade() is called, with the default target=None, dry_run=False
UpgradeDefaults ==
    /\ Begin("upgrade", None, FALSE, pending_migrations, "upgrade_body")
    /\ UNCHANGED <<files, ledger, lost, discovered, batches, snapshots, txn, reply, created, ctx, db, job, returned, given, computed, disk, fetchers, report>>

NextCreate ==
    \/ CreateMigration
    \/ UpgradeDefaults
    \/ UpgradeBody
    \/ UpgradeRecord

SpecCreate == InitCreate /\ [][NextCreate]_vars

\* ------------------------------------------------------------------------
\* Specification of a MigrationContext under any sequence of operation calls
\* ------------------------------------------------------------------------

InitContext ==
    /\ files = <<>>
    /\ ledger = <<>>
    /\ pc = "idle"
    /\ call = NoCall
    /\ todo = <<>>
    /\ idx = 1
    /\ ids = <<>>
    /\ executed = <<>>
    /\ outcome = NoOutcome
    /\ ledger0 = <<>>
    /\ lost = None
    /\ repeated = FALSE
    /\ discovered = <<>>
    /\ batches = <<>>
    /\ snapshots = NoSnapshots
    /\ txn = NoTxn
    /\ reply = NoReply
    /\ created = <<>>
    /\ ctx \in {Context(driver, dry_run) : driver \in {"none", "live"}, dry_run \in BOOLEAN}
    /\ db = <<>>
    /\ job = NoJob
    /\ returned = NoReturn
    /\ given = NoInput
    /\ computed = NoResult
    /\ disk = NoFiles
    /\ fetchers = NoFetchers
    /\ report = NoReport

NextContext ==
    \/ SchemaOperation
    \/ RunCypher
    \/ BeginBatch
    \/ CreateNodes
    \/ CreateRelationships
    \/ UpsertNodes
    \/ UpsertRelationships
    \/ BulkCreateNodes
    \/ BulkUpsertNodes
    \/ BulkCreateRelationships
    \/ RecordOperation
    \/ RunRequest

SpecContext == InitContext /\ [][NextContext]_vars

\* ------------------------------------------------------------------------
\* Specification of the schema IR functions on given snapshots
\* ------------------------------------------------------------------------

\* the property `name' as declared with no option
BaseProperty(name) == PropertyIR(name, "StringProperty", FALSE, FALSE, FALSE, PyNone, Absent)

\* the property `name' with one field set to another value
PropertyVariants(name) ==
    LET p == BaseProperty(name)
    IN  {p,
         [p EXCEPT !.property_type = "IntegerProperty"],
         [p EXCEPT !.required = TRUE],
         [p EXCEPT !.unique_index = TRUE],
         [p EXCEPT !.index = TRUE],
         [p EXCEPT !.default = PyInt("1")],
         [p EXCEPT !.default = PyStr("1")],
         [p EXCEPT !.choices = PresentItems(<<>>)],
         [p EXCEPT !.choices = PresentItems(<<"x">>)]}

\* the properties tuples of the node "k1": none, one property, two
\* properties in either order
PropertyTuples ==
    {<<>>} \cup {<<p>> : p \in PropertyVariants("a")}
    \cup {<<BaseProperty("a"), BaseProperty("b")>>, <<BaseProperty("b"), BaseProperty("a")>>}

\* the properties tuples of the relationship "r1"
RelPropertyTuples ==
    {<<>>, <<BaseProperty("a")>>, <<[BaseProperty("a") EXCEPT !.required = TRUE]>>,
     <<BaseProperty("a"), BaseProperty("b")>>, <<BaseProperty("b"), BaseProperty("a")>>}

Labels == {"A", "B"}

RelTypes == {"R", "S"}

\* the node "k1": any label and properties, or with a relationship definition
Nodes1 ==
    {NodeIR("k1", label, "A", "m", properties, <<>>) : label \in Labels, properties \in PropertyTuples}
    \cup {NodeIR("k1", "A", "A", "m", <<>>, <<RelationshipDefIR("knows", "R", "B", "to", model_kgid)>>) :
            model_kgid \in {NoneStr, "r1"}}

Node2 == NodeIR("k2", "B", "B", "m", <<BaseProperty("b")>>, <<>>)

\* the nodes tuples: at most two nodes of different kgids, in either order
NodeTuples ==
    {<<>>, <<Node2>>} \cup {<<n>> : n \in Nodes1}
    \cup UNION {{<<n, Node2>>, <<Node2, n>>} :
                n \in {NodeIR("k1", label, "A", "m", <<>>, <<>>) : label \in Labels}}

Relationships1 ==
    {RelationshipIR("r1", rel_type, "R", "m", properties) :
        rel_type \in RelTypes, properties \in RelPropertyTuples}

Relationship2 == RelationshipIR("r2", "S", "S", "m", <<>>)

\* the relationships tuples: at most two relationships of different kgids
RelationshipTuples ==
    {<<>>, <<Relationship2>>} \cup {<<r>> : r \in Relationships1}
    \cup UNION {{<<r, Relationship2>>, <<Relationship2, r>>} :
                r \in {RelationshipIR("r1", rel_type, "R", "m", <<>>) : rel_type \in RelTypes}}

\* the nodes and relationships of the given snapshots: any nodes tuple with
\* no relationship, or any relationships tuple beside at most one node
Structures ==
    {[nodes |-> nodes, relationships |-> <<>>] : nodes \in NodeTuples}
    \cup {[nodes |-> nodes, relationships |-> relationships] :
            nodes \in {<<>>, <<Node2>>}, relationships \in RelationshipTuples}

\* the created_at and schema_hash of the second snapshot: those of the
\* first one, or a later time and a hash that was filled in
Stamps == {[created_at |-> "t1", schema_hash |-> ""], [created_at |-> "t2", schema_hash |-> "abc"]}

\* the two snapshots given to diff_snapshots and to compute_hash
Given(old, new, stamp) ==
    [old |-> SchemaSnapshot(old.nodes, old.relationships, "t1", ""),
     new |-> SchemaSnapshot(new.nodes, new.relationships, stamp.created_at, stamp.schema_hash)]

irUnchanged == <<files, ledger, pc, call, todo, idx, ids, executed, outcome, ledger0, lost, repeated, discovered, batches, snapshots, txn, reply, created, ctx, db, job, returned, given, disk, fetchers, report>>

\* diff_snapshots(old, new) is called
DiffSnapshots ==
    /\ computed' = [op |-> "diff_snapshots", diff |-> diff_snapshots(given.old, given.new)]
    /\ UNCHANGED irUnchanged

\* compute_hash is called on both snapshots
ComputeHash ==
    /\ computed' = [op |-> "compute_hash",
                    old |-> compute_hash(given.old), new |-> compute_hash(given.new)]
    /\ UNCHANGED irUnchanged

\* hash_snapshot(new) is called, and compute_hash on what it returns
HashSnapshot ==
    /\ computed' = [op |-> "hash_snapshot",
                    snapshot |-> hash_snapshot(given.new),
                    digest |-> compute_hash(hash_snapshot(given.new))]
    /\ UNCHANGED irUnchanged

\* every PropertyIR of the entities, in order
RECURSIVE properties_of(_)
properties_of(entities) ==
    IF entities = <<>> THEN <<>>
    ELSE Head(entities).properties \o properties_of(Tail(entities))

\* PropertyIR.from_dict(p.to_dict()) is computed for every property of the
\* new snapshot, and SchemaSnapshot.from_json(hash_snapshot(new).to_json())
RoundTrip ==
    /\ computed' = [op |-> "round_trip",
                    properties |-> LET ps == properties_of(given.new.nodes) \o properties_of(given.new.relationships)
                                   IN  [i \in DOMAIN ps |-> PropertyIR_from_dict(PropertyIR_to_dict(ps[i]))],
                    hashed |-> hash_snapshot(given.new),
                    snapshot |-> from_json(to_json(hash_snapshot(given.new)))]
    /\ UNCHANGED irUnchanged

\* generate_operations_from_diff(diff_snapshots(old, new))
GenerateOperations ==
    /\ computed' = [op |-> "generate_operations_from_diff",
                    changes |-> diff_snapshots(given.old, given.new).node_changes,
                    code |-> generate_operations_from_diff(diff_snapshots(given.old, given.new).node_changes)]
    /\ UNCHANGED irUnchanged

\* the generated upgrade body, then the generated downgrade body, are run
\* against the graph of each modified node class
RunBodies ==
    /\ LET IsModified(nc) == nc.kind = "modified"
           changes == SelectSeq(diff_snapshots(given.old, given.new).node_changes, IsModified)
           code == generate_operations_from_diff(diff_snapshots(given.old, given.new).node_changes)
       IN  computed' = [op |-> "run_bodies",
                        runs |-> [i \in DOMAIN changes |->
                                    [change |-> changes[i],
                                     before |-> graph_of(changes[i].old),
                                     upgraded |-> run_body(graph_of(changes[i].old), code.upgrade),
                                     reverted |-> run_body(run_body(graph_of(changes[i].old), code.upgrade),
                                                           code.downgrade)]]]
    /\ UNCHANGED irUnchanged

InitIR ==
    /\ files = <<>>
    /\ ledger = <<>>
    /\ pc = "idle"
    /\ call = NoCall
    /\ todo = <<>>
    /\ idx = 1
    /\ ids = <<>>
    /\ executed = <<>>
    /\ outcome = NoOutcome
    /\ ledger0 = <<>>
    /\ lost = None
    /\ repeated = FALSE
    /\ discovered = <<>>
    /\ batches = <<>>
    /\ snapshots = NoSnapshots
    /\ txn = NoTxn
    /\ reply = NoReply
    /\ created = <<>>
    /\ ctx = NoContext
    /\ db = <<>>
    /\ job = NoJob
    /\ returned = NoReturn
    /\ given \in {Given(old, new, stamp) : old \in Structures, new \in Structures, stamp \in Stamps}
    /\ computed = NoResult
    /\ disk = NoFiles
    /\ fetchers = NoFetchers
    /\ report = NoReport

NextIR == DiffSnapshots \/ ComputeHash \/ HashSnapshot \/ RoundTrip \/ GenerateOperations \/ RunBodies

SpecIR == InitIR /\ [][NextIR]_vars

\* ------------------------------------------------------------------------
\* Specification of concurrent fetch_remote calls on one cache directory
\* ------------------------------------------------------------------------

InitFetch ==
    /\ files = <<>>
    /\ ledger = <<>>
    /\ pc = "idle"
    /\ call = NoCall
    /\ todo = <<>>
    /\ idx = 1
    /\ ids = <<>>
    /\ executed = <<>>
    /\ outcome = NoOutcome
    /\ ledger0 = <<>>
    /\ lost = None
    /\ repeated = FALSE
    /\ discovered = <<>>
    /\ batches = <<>>
    /\ snapshots = NoSnapshots
    /\ txn = NoTxn
    /\ reply = NoReply
    /\ created = <<>>
    /\ ctx = NoContext
    /\ db = <<>>
    /\ job = NoJob
    /\ returned = NoReturn
    /\ given = NoInput
    /\ computed = NoResult
    /\ disk = NoFiles
    /\ fetchers = NoFetchers
    /\ report = NoReport

NextFetch ==
    \/ FetchRemote
    \/ Mkstemp
    \/ WriteChunk
    \/ MoveToDest
    \/ FetchFails
    \/ VerifyChecksum
    \/ StoreOpen
    \/ CopyChunk
    \/ Return
    \/ Interrupt

SpecFetch == InitFetch /\ [][NextFetch]_vars

\* ------------------------------------------------------------------------
\* Specification of verify_project between direct Ledger calls
\* ------------------------------------------------------------------------

\* the schema_hash of a migration file: empty (no snapshot was taken), or a hash
FileHashes == {"", "h1"}

\* the schema_hash handed to record_migration
RowHashes == {"h1", "h2"}

VerifyParents == {None, 1}

\* the migration files: at most MaxRevs files of different revision ids,
\* under file names that sort in any order
VerifyFiles ==
    LET File == [revision_id : LedgerRevs, parent_id : VerifyParents, rollback_safe : {TRUE}, schema_hash : FileHashes]
    IN  {fs \in UNION {[1..n -> File] : n \in 0..MaxRevs} :
            \A i, j \in DOMAIN fs : fs[i].revision_id = fs[j].revision_id => i = j}

verifyUnchanged == <<files, ledger, pc, call, todo, idx, ids, executed, outcome, ledger0, lost, repeated, discovered, batches, snapshots, txn, reply, created, ctx, db, job, returned, given, computed, disk, fetchers>>

\* ledger.record_migration(r, parent, description, schema_hash): the row is
\* stored with its schema_hash column
RecordMigrationHash ==
    \E r \in LedgerRevs, parent \in VerifyParents, schema_hash \in RowHashes :
        /\ pc = "idle"
        /\ now(ledger) <= MaxClock
        /\ IF is_applied(ledger, r)
           THEN /\ reply' = Reply("record_migration", "already recorded", r)
                /\ UNCHANGED <<ledger, txn>>
           ELSE /\ ledger' = Append(ledger, [revision_id |-> r, parent_id |-> parent, rollback_safe |-> TRUE,
                                             at |-> now(ledger), schema_hash |-> schema_hash])
                /\ txn' = commit(execute(txn))
                /\ reply' = Reply("record_migration", "returned", r)
        /\ UNCHANGED <<batches, snapshots>>
        /\ UNCHANGED engineVars

\* verify_project(config, ledger)
VerifyProject ==
    /\ pc = "idle"
    /\ report' = verify_project
    /\ UNCHANGED verifyUnchanged

InitVerify ==
    /\ files \in VerifyFiles
    /\ ledger = <<>>
    /\ pc = "idle"
    /\ call = NoCall
    /\ todo = <<>>
    /\ idx = 1
    /\ ids = <<>>
    /\ executed = <<>>
    /\ outcome = NoOutcome
    /\ ledger0 = <<>>
    /\ lost = None
    /\ repeated = FALSE
    /\ discovered = <<>>
    /\ batches = <<>>
    /\ snapshots = NoSnapshots
    /\ txn = NoTxn
    /\ reply = NoReply
    /\ created = <<>>
    /\ ctx = NoContext
    /\ db = <<>>
    /\ job = NoJob
    /\ returned = NoReturn
    /\ given = NoInput
    /\ computed = NoResult
    /\ disk = NoFiles
    /\ fetchers = NoFetchers
    /\ report = NoReport

NextVerify ==
    \/ RecordMigrationHash
    \/ RemoveMigration
    \/ VerifyProject

SpecVerify == InitVerify /\ [][NextVerify]_vars

\* ------------------------------------------------------------------------
\* Chain order
\* ------------------------------------------------------------------------

\* ms is a well-formed linear chain: some arrangement of all of ms starts at
\* a root and links every later migration to the one before it
IsChain(c) ==
    /\ \A i, j \in DOMAIN c : c[i].revision_id = c[j].revision_id => i = j
    /\ \A k \in DOMAIN c : c[k].parent_id = (IF k = 1 THEN None ELSE c[k - 1].revision_id)

WellFormedChain(ms) ==
    \E p \in Perms(DOMAIN ms) : IsChain([k \in DOMAIN ms |-> ms[p[k]]])

\* every migration of ms appears after its parent
ParentsFirst(ms) ==
    \A i, j \in DOMAIN ms : ms[j].revision_id = ms[i].parent_id => j < i

\* position of revision r in the chain 1 <- 2 <- ... <- n of LinearChains
ChainPos(r) == r

\* the revisions of list rs are in strictly ascending chain order
InChainOrder(rs) == \A i, j \in DOMAIN rs : i < j => ChainPos(rs[i]) < ChainPos(rs[j])

\* ------------------------------------------------------------------------
\* Claims
\* ------------------------------------------------------------------------

\* C1: for migration files whose parent_id links form a well-formed linear
\* chain, discover_migrations returns every migration after its parent,
\* whatever the order of the file names.
C1_ChainOrder ==
    (pc = "discovered" /\ WellFormedChain(files)) => ParentsFirst(discovered)

\* rows / log entries the running call has produced for todo[1..n]
RowsOf(ms, n) == [i \in 1..n |-> Row(ms[i])]

BodiesOf(ms, op, n) == [i \in 1..n |-> Body(ms[i], op, TRUE)]

PendingRevs == Range(RevIds(pending_migrations))

\* C2: when the upgrade body of pending migration k raises in a non-dry-run
\* upgrade, the run aborts with a MigrationError naming k; the migrations
\* applied earlier in the run stay recorded, k is not recorded and is still
\* pending, and no migration after k in the run has its body executed or is
\* recorded.
C2_BodyRaises ==
    /\ pc = "upgrade_body"
    /\ ~call.dry_run
    /\ executed' = Append(executed, Body(cur, "upgrade", FALSE))

C2_Aborts ==
    /\ pc' = "idle"
    /\ outcome'.status = "MigrationError"
    /\ outcome'.revision_id = cur.revision_id
    /\ ledger' = ledger
    /\ SubSeq(ledger, 1, Len(ledger0)) = ledger0
    /\ Values(ledger) = Values(ledger0) \o RowsOf(todo, idx - 1)
    /\ executed = BodiesOf(todo, "upgrade", idx - 1)
    /\ \A j \in idx..Len(todo) : ~is_applied(ledger', todo[j].revision_id)
    /\ cur.revision_id \in PendingRevs'

C2_UpgradeFailure == [][C2_BodyRaises => C2_Aborts]_vars

\* C2 witness: an upgrade has recorded one migration and then aborted on the
\* next one, with a third one never reached
C2_Witness ==
    /\ call.op = "upgrade" /\ ~call.dry_run
    /\ outcome.status = "MigrationError"
    /\ Len(executed) = 2
    /\ Len(ledger) = 1
    /\ Len(pending_migrations) = 2

\* C3: through the engine a migration enters the applied set only after its
\* upgrade body returned in a non-dry-run upgrade, and leaves it only after
\* its downgrade body returned in a non-dry-run downgrade; when a downgrade
\* body raises, a MigrationError naming that revision is raised, the
\* migration stays applied and the ones reverted earlier in the run stay
\* removed.
C3_Enters(r) ==
    (~is_applied(ledger, r) /\ is_applied(ledger', r)) =>
        /\ pc = "upgrade_record" /\ call.op = "upgrade" /\ ~call.dry_run
        /\ cur.revision_id = r
        /\ executed # <<>> /\ Last(executed) = Body(cur, "upgrade", TRUE)

C3_Leaves(r) ==
    (is_applied(ledger, r) /\ ~is_applied(ledger', r)) =>
        /\ pc = "downgrade_remove" /\ call.op = "downgrade" /\ ~call.dry_run
        /\ cur.revision_id = r
        /\ executed # <<>> /\ Last(executed) = Body(cur, "downgrade", TRUE)

C3_DowngradeRaises ==
    (pc = "downgrade_body" /\ executed' = Append(executed, Body(cur, "downgrade", FALSE))) =>
        /\ pc' = "idle"
        /\ outcome'.status = "MigrationError"
        /\ outcome'.revision_id = cur.revision_id
        /\ ledger' = ledger
        /\ is_applied(ledger', cur.revision_id)
        /\ ~call.dry_run => \A i \in 1..(idx - 1) : ~is_applied(ledger', todo[i].revision_id)

C3_AppliedLifecycle ==
    [][(\A r \in Revs : C3_Enters(r) /\ C3_Leaves(r)) /\ C3_DowngradeRaises]_vars

\* C3 witness: a downgrade to a target has removed one migration and then
\* aborted on the body of the next, which stays applied
C3_Witness ==
    /\ call.op = "downgrade" /\ ~call.dry_run
    /\ outcome.status = "MigrationError"
    /\ Len(executed) = 2
    /\ executed[1].ok /\ ~is_applied(ledger, executed[1].revision_id)
    /\ ~executed[2].ok /\ is_applied(ledger, executed[2].revision_id)

\* C4: a crash at any point of an upgrade run changes no ledger row, so no
\* migration is recorded whose upgrade body did not complete; a migration
\* whose body completed but whose record was not committed is pending after
\* the restart, the next upgrade takes it up again, and it is recorded only
\* after its body has completed once more.
C4_CrashStep ==
    (pc # "idle" /\ outcome'.status = "crashed") =>
        /\ ledger' = ledger
        /\ call.op = "upgrade" =>
            /\ \A i \in 1..(idx - 1) : executed[i] = Body(todo[i], "upgrade", TRUE)
            /\ \A i \in 1..(idx - 1) : is_applied(ledger', todo[i].revision_id) = ~call.dry_run
            /\ \A i \in idx..Len(todo) : ~is_applied(ledger', todo[i].revision_id)
        /\ pc = "upgrade_record" =>
            /\ lost' = cur.revision_id
            /\ cur.revision_id \in PendingRevs'

C4_NextUpgrade ==
    (pc = "idle" /\ lost # None /\ call'.op = "upgrade") =>
        \E i \in DOMAIN todo' : todo'[i].revision_id = lost

C4_Rerun ==
    (lost # None /\ is_applied(ledger', lost)) =>
        /\ pc = "upgrade_record" /\ cur.revision_id = lost
        /\ executed # <<>> /\ Last(executed) = Body(cur, "upgrade", TRUE)

C4_CrashRecovery ==
    /\ [](lost # None => lost \in PendingRevs)
    /\ [][C4_CrashStep /\ C4_NextUpgrade /\ C4_Rerun]_vars

\* C4 witness: after a crash in the window, a later upgrade has executed the
\* body of the lost migration again and is about to record it
C4_Witness ==
    /\ pc = "upgrade_record"
    /\ lost = cur.revision_id
    /\ Last(executed) = Body(cur, "upgrade", TRUE)
    /\ ~is_applied(ledger, lost)

\* C5: when downgrade reaches an applied migration whose rollback_safe flag
\* is false, it raises RollbackUnsafeError naming it before its downgrade
\* body is invoked and before remove_migration: the migration stays applied
\* and no downgrade body of it has run.
C5_ReachesUnsafe ==
    /\ pc = "downgrade_body"
    /\ ~(call.target # None /\ cur.revision_id = call.target)
    /\ ~cur.rollback_safe
    /\ outcome'.status # "crashed"

C5_Raises ==
    /\ pc' = "idle"
    /\ outcome'.status = "RollbackUnsafeError"
    /\ outcome'.revision_id = cur.revision_id
    /\ ledger' = ledger
    /\ is_applied(ledger', cur.revision_id)
    /\ executed' = executed
    /\ \A i \in DOMAIN executed' : executed'[i].revision_id # cur.revision_id

C5_RollbackSafety == [][C5_ReachesUnsafe => C5_Raises]_vars

\* C5 witness: a downgrade to a target reverted one migration and was then
\* stopped by a rollback-unsafe one, which is still applied
C5_Witness ==
    /\ call.op = "downgrade" /\ ~call.dry_run
    /\ outcome.status = "RollbackUnsafeError"
    /\ is_applied(ledger, outcome.revision_id)
    /\ Len(executed) = 1 /\ executed[1].ok
    /\ executed[1].revision_id # outcome.revision_id

\* C6: no step of a dry-run upgrade or downgrade, whether the call returns
\* or raises, changes the ledger.
C6_DryRunStep ==
    \/ call'.dry_run
    \/ (pc # "idle" /\ call.dry_run)

C6_DryRunFrame == [][C6_DryRunStep => ledger' = ledger]_vars

\* C6 witness: a dry-run downgrade has returned two reverted ids, and both
\* migrations are still applied
C6_Witness ==
    /\ call.op = "downgrade" /\ call.dry_run
    /\ outcome.status = "returned"
    /\ Len(outcome.ids) = 2
    /\ \A i \in DOMAIN outcome.ids : is_applied(ledger, outcome.ids[i])

\* C7: upgrade() with no target, not dry-run, called right after such a call
\* returned, returns the empty list, executes no upgrade body and leaves the
\* ledger unchanged.
UpgradeAll == [op |-> "upgrade", target |-> None, dry_run |-> FALSE]

C7_SecondCall ==
    /\ pc = "idle"
    /\ call = UpgradeAll /\ outcome.status = "returned"
    /\ call' = UpgradeAll

C7_Nothing ==
    /\ pc' = "idle"
    /\ outcome' = [status |-> "returned", revision_id |-> None, ids |-> <<>>]
    /\ executed' = <<>>
    /\ ledger' = ledger

C7_IdempotentUpgrade == [][C7_SecondCall => C7_Nothing]_vars

\* C7 witness: the second of two successive upgrade() calls has returned,
\* with every migration file applied by the first
C7_Witness ==
    /\ pc = "idle"
    /\ call = UpgradeAll /\ repeated
    /\ outcome.status = "returned"
    /\ Len(ledger) = MaxFiles

\* C8: upgrade() with no target and all bodies succeeding executes the
\* pending migrations' bodies one at a time in chain order, commits each
\* ledger record after its body returned and before the next body starts,
\* and returns their revision ids in that order; when it returns, nothing is
\* pending.
C8_OneAtATime ==
    (call = UpgradeAll /\ pc \in {"upgrade_body", "upgrade_record"}) =>
        /\ Values(ledger) = Values(ledger0) \o RowsOf(todo, idx - 1)
        /\ executed = BodiesOf(todo, "upgrade", IF pc = "upgrade_body" THEN idx - 1 ELSE idx)

C8_Returns ==
    (call = UpgradeAll /\ pc # "idle" /\ outcome'.status = "returned") =>
        /\ outcome'.ids = RevIds(todo)
        /\ InChainOrder(outcome'.ids)
        /\ executed' = BodiesOf(todo, "upgrade", Len(todo))
        /\ Values(ledger') = Values(ledger0) \o RowsOf(todo, Len(todo))
        /\ pending_migrations' = <<>>

C8_UpgradeAllInChainOrder == []C8_OneAtATime /\ [][C8_Returns]_vars

\* C9: upgrade(target=t) with t pending applies exactly the pending
\* migrations that precede t in chain order and then t, returns that list,
\* and leaves every pending migration after t pending.
C9_UpToTarget ==
    LET t == call.target
        pending0 == Range(RevIds(todo))
        upto == {r \in pending0 : ChainPos(r) <= ChainPos(t)}
    IN  (/\ call.op = "upgrade" /\ ~call.dry_run
         /\ pc # "idle" /\ t \in pending0
         /\ outcome'.status = "returned") =>
            /\ Range(outcome'.ids) = upto
            /\ InChainOrder(outcome'.ids)
            /\ AppliedSet(ledger') = AppliedSet(ledger0) \cup upto
            /\ \A r \in pending0 \ upto : ~is_applied(ledger', r)

C9_UpgradeToTarget == [][C9_UpToTarget]_vars

\* C10: downgrade(target=t) with t applied reverts, in reverse chain order,
\* exactly the applied migrations that come after t in the chain and stops
\* before t: t and the applied migrations before it stay applied, and the
\* returned list is the reverted ids in the order they were reverted.
C10_DownToTarget ==
    LET t == call.target
        applied0 == AppliedSet(ledger0)
        after == {r \in applied0 : ChainPos(r) > ChainPos(t)}
    IN  (/\ call.op = "downgrade" /\ ~call.dry_run
         /\ pc # "idle" /\ t \in applied0
         /\ outcome'.status = "returned") =>
            /\ Range(outcome'.ids) = after
            /\ InChainOrder(Reverse(outcome'.ids))
            /\ AppliedSet(ledger') = applied0 \ after
            /\ is_applied(ledger', t)

C10_DowngradeToTarget == [][C10_DownToTarget]_vars

\* C11: downgrade() with no target, not dry-run, on a ledger whose head is a
\* rollback-safe migration (and whose downgrade body returns), reverts
\* exactly one migration, the one get_head() returned just before the call,
\* and leaves every other applied migration applied.
DowngradeHead == [op |-> "downgrade", target |-> None, dry_run |-> FALSE]

C11_Ends ==
    /\ call = DowngradeHead
    /\ pc # "idle" /\ pc' = "idle"
    /\ outcome'.status \notin {"crashed", "MigrationError"}
    /\ ledger0 # <<>>
    /\ get_head(ledger0).rollback_safe

C11_RevertsHead ==
    LET head == get_head(ledger0).revision_id
    IN  /\ outcome' = [status |-> "returned", revision_id |-> None, ids |-> <<head>>]
        /\ executed' = <<Body(todo[1], "downgrade", TRUE)>>
        /\ todo[1].revision_id = head
        /\ ledger' = remove_migration(ledger0, head)
        /\ Len(ledger') = Len(ledger0) - 1

C11_DowngradeOneStep == [][C11_Ends => C11_RevertsHead]_vars

\* C12: in every state pending_migrations() and applied_migrations()
\* partition discover_migrations(): each discovered migration is in exactly
\* one of them, in applied_migrations() exactly when the ledger has a row
\* with its revision_id, and both keep the order of discover_migrations().
PositionIn(ms, m) == CHOOSE k \in DOMAIN ms : ms[k] = m

KeepsOrderOf(part, ms) ==
    /\ Range(part) \subseteq Range(ms)
    /\ \A i, j \in DOMAIN part : i < j => PositionIn(ms, part[i]) < PositionIn(ms, part[j])

C12_StatusPartition ==
    LET all == discover_migrations
        pending == pending_migrations
        applied == applied_migrations
    IN  /\ \A i \in DOMAIN all : (all[i] \in Range(pending)) # (all[i] \in Range(applied))
        /\ \A i \in DOMAIN all : (all[i] \in Range(applied)) = is_applied(ledger, all[i].revision_id)
        /\ Len(pending) + Len(applied) = Len(all)
        /\ KeepsOrderOf(pending, all) /\ KeepsOrderOf(applied, all)

\* C12 witness: of three discovered migrations the middle one of the chain
\* is the last one applied and the third is pending
C12_Witness ==
    /\ pc = "idle"
    /\ Len(discover_migrations) = 3
    /\ RevIds(applied_migrations) = <<1, 2>>
    /\ RevIds(pending_migrations) = <<3>>

\* C13: record_migration(r, ...) on a ledger that already has a row for r
\* raises the "already recorded" LedgerError naming r and changes nothing:
\* r is applied before and after, the stored row of r and every other row
\* are as they were.
C13_Duplicate(r) ==
    (reply'.op = "record_migration" /\ reply'.value = r /\ is_applied(ledger, r)) =>
        /\ reply'.status = "already recorded"
        /\ is_applied(ledger', r)
        /\ ledger' = ledger
        /\ batches' = batches /\ snapshots' = snapshots

C13_DuplicateRecord == [][\A r \in LedgerRevs : C13_Duplicate(r)]_vars

\* C13 witness: with two rows stored, a second record_migration of one of
\* them has raised
C13_Witness ==
    /\ reply.op = "record_migration" /\ reply.status = "already recorded"
    /\ is_applied(ledger, reply.value)
    /\ Len(ledger) = 2

\* C14: remove_migration(r) raises no error in any ledger state, whether or
\* not r is recorded and also when batches are scoped to r; afterwards r is
\* not applied and no other migration row has changed.
C14_Remove(r) ==
    (reply'.op = "remove_migration" /\ reply'.value = r) =>
        /\ reply'.status = "returned"
        /\ ~is_applied(ledger', r)
        /\ ledger' = remove_migration(ledger, r)
        /\ remove_migration(ledger', r) = ledger'

C14_IdempotentRemove == [][\A r \in LedgerRevs : C14_Remove(r)]_vars

\* C15: get_applied_migrations() lists exactly the recorded migrations in
\* the order of their record calls, whatever their parent_id: a record call
\* puts its row last, a remove call takes its row out and moves no other;
\* get_head() is the last of the list, or None when there is no row.
C15_Listing ==
    LET listing == get_applied_migrations(ledger)
    IN  /\ Len(listing) = Len(ledger)
        /\ Range(listing) = Range(ledger)
        /\ get_head(ledger) = (IF ledger = <<>> THEN None ELSE Last(listing))
        /\ \A i \in DOMAIN ledger : (\A j \in DOMAIN ledger : ledger[j].at <= ledger[i].at) => get_head(ledger) = ledger[i]

C15_Recorded ==
    (reply'.op = "record_migration" /\ reply'.status = "returned") =>
        /\ Len(ledger') = Len(ledger) + 1
        /\ SubSeq(get_applied_migrations(ledger'), 1, Len(ledger)) = get_applied_migrations(ledger)
        /\ get_head(ledger').revision_id = reply'.value

C15_Removed ==
    (reply'.op = "remove_migration" /\ reply'.status = "returned") =>
        get_applied_migrations(ledger') = remove_migration(get_applied_migrations(ledger), reply'.value)

C15_ApplicationOrder == []C15_Listing /\ [][C15_Recorded /\ C15_Removed]_vars

\* C15 witness: revision 1 was recorded, removed and recorded again after
\* its child 2; the list shows 2 before 1 and the head is 1
C15_Witness ==
    /\ RevIds(get_applied_migrations(ledger)) = <<2, 1>>
    /\ ledger[1].parent_id = 1 /\ ledger[1].at = 2
    /\ get_head(ledger).revision_id = 1

\* C16: verify_chain() returns one issue for each applied migration whose
\* parent_id is not None and is not the revision_id of an applied
\* migration, naming that parent, and the empty list when there is none; it
\* does not change the ledger.
C16_Dangling == {i \in DOMAIN ledger : ledger[i].parent_id # None /\ ~is_applied(ledger, ledger[i].parent_id)}

C16_Verified ==
    reply'.op = "verify_chain" =>
        LET issues == reply'.issues
        IN  /\ Len(issues) = Cardinality(C16_Dangling)
            /\ \A i \in C16_Dangling : Cardinality({k \in DOMAIN issues : issues[k] = Issue(ledger[i])}) = 1
            /\ \A k \in DOMAIN issues : \E i \in C16_Dangling : issues[k].parent_id = ledger[i].parent_id
            /\ (C16_Dangling = {}) => issues = <<>>
            /\ ledger' = ledger /\ batches' = batches /\ snapshots' = snapshots

C16_VerifyChain == [][C16_Verified]_vars

\* C16 witness: of two applied migrations one is a root and one has a parent
\* that is not applied; verify_chain has reported exactly that one
C16_Witness ==
    /\ reply.op = "verify_chain"
    /\ Len(ledger) = 2
    /\ Len(reply.issues) = 1
    /\ \E i \in DOMAIN ledger : ledger[i].parent_id = None

\* C17: record_batch raises the "already recorded" error exactly when a
\* batch with the same batch_id is stored, and then leaves the stored
\* batches as they were; for a batch_id that is not stored it does not
\* report "already recorded", whatever the migration_id.
C17_Batch(b) ==
    (reply'.op = "record_batch" /\ reply'.value = b) =>
        /\ (reply'.status = "already recorded") = has_batch(batches, b)
        /\ (reply'.status = "already recorded") => batches' = batches
        /\ (reply'.status = "returned") => has_batch(batches', b)

C17_DuplicateBatch == [][\A b \in BatchIds : C17_Batch(b)]_vars

\* C18: every mutating Ledger call commits before it returns: between two
\* calls the connection holds no uncommitted change, so reopening the file
\* after a crash shows every row as it was, the effect of the call that
\* just returned included; a call that raised has changed no row.
C18_Committed == pc = "idle" => ~txn.open

C18_Reopened ==
    reply'.op = "reopen" =>
        ledger' = ledger /\ batches' = batches /\ snapshots' = snapshots

C18_Effect ==
    /\ (reply'.op = "record_migration" /\ reply'.status = "returned") => is_applied(ledger', reply'.value)
    /\ (reply'.op = "remove_migration" /\ reply'.status = "returned") => ~is_applied(ledger', reply'.value)
    /\ (reply'.op = "record_batch" /\ reply'.status = "returned") => has_batch(batches', reply'.value)
    /\ reply'.op = "remove_batch" => ~has_batch(batches', reply'.value)
    /\ reply'.op = "store_snapshot" => get_snapshot(snapshots', reply'.value) # None

C18_Raised ==
    reply'.status \in {"already recorded", "IntegrityError"} =>
        ledger' = ledger /\ batches' = batches /\ snapshots' = snapshots

C18_CommitBeforeReturn == []C18_Committed /\ [][C18_Reopened /\ C18_Effect /\ C18_Raised]_vars

\* C18 witness: the file was reopened after calls on all three tables, and
\* their rows are there
C18_Witness ==
    /\ reply.op = "reopen"
    /\ Len(ledger) = 2
    /\ Len(batches) = 1
    /\ get_snapshot(snapshots, "h1") = 2

\* ------------------------------------------------------------------------
\* create_migration
\* ------------------------------------------------------------------------

\* C19: After n consecutive create_migration calls starting from an empty
\* migrations directory, the k-th created migration has the sequence number
\* k in its revision id (000k_<slug of its description>) and the revision id
\* of the (k-1)-th created migration as parent_id (None for the first), so
\* the files form one linear chain; when upgrade() then returns, n
\* migrations are applied and get_head() is the n-th.
C19_Numbered ==
    \A k \in DOMAIN created :
        /\ created[k].revision_id = k
        /\ created[k].slug = slugify(created[k].description)
        /\ created[k].parent_id = (IF k = 1 THEN None ELSE created[k - 1].revision_id)

C19_OneChain ==
    /\ files = created
    /\ discover_migrations = created
    /\ IsChain(discover_migrations)

C19_UpgradeReturns ==
    /\ call' = UpgradeAll
    /\ pc' = "idle" /\ outcome'.status = "returned"
    /\ created' = created

C19_AllApplied ==
    /\ RevIds(get_applied_migrations(ledger')) = RevIds(created)
    /\ created # <<>> => get_head(ledger').revision_id = Last(created).revision_id

C19_CreatedChain ==
    [](C19_Numbered /\ C19_OneChain) /\ [][C19_UpgradeReturns => C19_AllApplied]_vars

\* C19 witness: MaxFiles migrations were created, under both descriptions,
\* and an upgrade() call has returned with all of them applied and the last
\* created one at the head
C19_Witness ==
    /\ Len(created) = MaxFiles
    /\ {created[k].slug : k \in DOMAIN created} = {slugify(d) : d \in Descriptions}
    /\ pc = "idle" /\ call = UpgradeAll /\ outcome.status = "returned"
    /\ Len(get_applied_migrations(ledger)) = MaxFiles
    /\ get_head(ledger).revision_id = Last(created).revision_id
    /\ Last(created).parent_id = MaxFiles - 1

\* C20: create_migration called with a current snapshot whose diff against
\* the parent migration's stored snapshot has property or label changes
\* writes a file whose upgrade body makes the corresponding operation calls
\* in order (for an added unique property: add_node_property, then
\* add_unique_constraint) and whose downgrade body makes the inverse calls;
\* with no snapshot, no stored parent snapshot or an empty diff both bodies
\* are no-ops.
C20_Create == created' # created

C20_Diff ==
    LET f == Last(created')
        prev_json == IF created = <<>> THEN None
                     ELSE get_snapshot(snapshots, Last(created).schema_hash)
    IN  IF f.schema_hash = "" \/ prev_json = None THEN NoDiff
        ELSE diff_snapshots(from_json(Document(prev_json)), from_json(Document(get_snapshot(snapshots', f.schema_hash))))

C20_Bodies ==
    LET f == Last(created')
        code == generate_operations_from_diff(C20_Diff.node_changes)
    IN  /\ f.upgrade_body = code.upgrade
        /\ f.downgrade_body = code.downgrade

C20_OperationsFromDiff == [][C20_Create => C20_Bodies]_vars

\* C21: every call of a MigrationContext operation that does not return at
\* once on empty data (or empty merge_keys) appends its entry to
\* ctx.operations before any request for it is sent to the database: in
\* dry-run, with no driver, and when the driver raises the entry is in the
\* log when the call ends; a request is sent only for the entry that is last
\* in the log; the log is append-only and keeps call order.
C21_Recorded ==
    (job # NoJob /\ job.pos = "run") =>
        (ctx.operations # <<>> /\ Last(ctx.operations) = Operation(job))

C21_RequestAfterEntry ==
    db' # db =>
        /\ job # NoJob /\ job.pos = "run"
        /\ Last(ctx.operations) = Operation(job)
        /\ db' = Append(db, Request(job))
        /\ ctx'.operations = ctx.operations

C21_AppendOnly ==
    \/ ctx'.operations = ctx.operations
    \/ job # NoJob /\ ctx'.operations = Append(ctx.operations, Operation(job))

C21_Started ==
    (job = NoJob /\ job' # NoJob) =>
        (job'.pos = "record" /\ db' = db /\ ctx'.operations = ctx.operations)

C21_EndsRecorded ==
    (job # NoJob /\ job' = NoJob) =>
        (ctx'.operations # <<>> /\ Last(ctx'.operations) = Operation(job))

C21_ReturnsRecorded ==
    (job = NoJob /\ job' = NoJob) => ctx'.operations # ctx.operations

C22_Unbound == ctx.dry_run \/ ctx.driver = "none"

C22_NothingSent ==
    C22_Unbound => (db = <<>> /\ (job # NoJob => job.pos = "record"))

C22_StillRecorded ==
    (C22_Unbound /\ job # NoJob) =>
        (ctx'.operations = Append(ctx.operations, Operation(job)) /\ db' = db)

C22_DryRunNeverSends == []C22_NothingSent /\ [][C22_StillRecorded]_vars

\* C22 witness: a dry-run context with a live driver has recorded a
\* begin_batch and the two chunks of a client-chunked bulk operation with a
\* statement, nothing was sent and the call has returned
C22_Witness ==
    /\ ctx.dry_run /\ ctx.driver = "live"
    /\ Len(ctx.operations) = MaxOps + 1
    /\ ctx.operations[1].op_type = "begin_batch"
    /\ Last(ctx.operations).chunk_index = 1
    /\ job = NoJob /\ returned.status = "returned" /\ returned.value = MaxRows
    /\ db = <<>>

\* C23: bulk_create_nodes, bulk_upsert_nodes and bulk_create_relationships
\* with n >= 1 rows and chunk_size >= 1: a client-chunked call that returns
\* has appended exactly ceil(n / chunk_size) entries, with chunk_index 0, 1,
\* ... in order, every count <= chunk_size and the counts summing to n, and
\* has made one request per chunk; a server-batched call has appended
\* exactly one entry with count n; both return n.
C23_BulkReturns ==
    /\ job # NoJob /\ job.method # ""
    /\ job' = NoJob /\ returned'.status = "returned"

C23_Ceil(n, chunk_size) ==
    CHOOSE k \in 1..n : k * chunk_size >= n /\ (k - 1) * chunk_size < n

C23_Appended == SubSeq(ctx'.operations, job.base + 1, Len(ctx'.operations))

C23_Counts ==
    LET n == Len(job.data)
        new == C23_Appended
    IN  /\ n >= 1 /\ job.chunk_size >= 1
        /\ returned'.value = n
        /\ \A k \in DOMAIN new : new[k].op_type = job.op_type
        /\ Sum([k \in DOMAIN new |-> new[k].count]) = n
        /\ IF job.method = "client_chunked"
           THEN /\ Len(new) = C23_Ceil(n, job.chunk_size)
                /\ \A k \in DOMAIN new :
                    /\ new[k].chunk_index = k - 1
                    /\ new[k].count >= 1 /\ new[k].count <= job.chunk_size
           ELSE /\ job.method = "CALL_IN_TRANSACTIONS"
                /\ Len(new) = 1 /\ new[1].count = n
        /\ ~(ctx.dry_run \/ ctx.driver = "none") =>
            /\ Len(db') >= Len(new)
            /\ \A k \in DOMAIN new :
                LET request == db'[Len(db') - Len(new) + k]
                IN  request.op_type = job.op_type /\ Len(request.rows) = new[k].count

C24_NoneInProgress ==
    (job # NoJob /\ job.writes) =>
        /\ job.data # <<>>
        /\ job.keyed => job.merge_keys # <<>>

C24_NoEmptyEntry ==
    \A k \in DOMAIN ctx.operations :
        ctx.operations[k].op_type \notin (SchemaOps \cup {"run_cypher", "begin_batch"})
            => ctx.operations[k].count >= 1

C24_ReturnsAtOnce == job = NoJob /\ job' = NoJob

C24_Unchanged ==
    /\ returned' = Returned("returned", 0, NoneStr)
    /\ ctx' = ctx
    /\ db' = db

C24_EmptyData ==
    [](C24_NoneInProgress /\ C24_NoEmptyEntry) /\ [][C24_ReturnsAtOnce => C24_Unchanged]_vars

\* C24 witness: on a context with a live driver, an active batch, a
\* non-empty log and a request made, a call has returned 0 at once
C24_Witness ==
    /\ ctx.driver = "live" /\ ~ctx.dry_run
    /\ ctx.batch_id = "b1"
    /\ Len(ctx.operations) = MaxOps /\ Len(db) = 1
    /\ job = NoJob /\ returned = Returned("returned", 0, NoneStr)

\* C25: every data-writing operation of a MigrationContext tags the written
\* records with the active batch identifier: the id of the most recent
\* begin_batch call on that context, or the literal "untracked" if
\* begin_batch was never called; begin_batch(id) returns id (a generated id
\* when none is given) and makes it active.
C25_Active ==
    LET begins == SelectSeq(ctx.operations, IsBegin)
    IN  IF begins = <<>> THEN "untracked" ELSE Last(begins).batch_id

C25_BatchOfCall ==
    /\ (job # NoJob /\ job.writes) => job.batch = C25_Active
    /\ \A k \in DOMAIN db :
        db[k].op_type \notin (SchemaOps \cup {"run_cypher"}) => db[k].batch # NoneStr

C25_Sent ==
    (db' # db /\ job.writes) =>
        /\ Last(db').batch = C25_Active
        /\ Last(db').rows # <<>>

C25_Begun ==
    (job # NoJob /\ job.op_type = "begin_batch" /\ job' = NoJob) =>
        /\ returned'.status = "returned"
        /\ job.batch_id \notin {NoneStr, ""} => returned'.batch_id = job.batch_id
        /\ returned'.batch_id \notin {NoneStr, "", "untracked"}
        /\ ctx'.batch_id = returned'.batch_id
        /\ Last(ctx'.operations).batch_id = returned'.batch_id

C25_BatchTag == []C25_BatchOfCall /\ [][C25_Sent /\ C25_Begun]_vars

\* C25 witness: after begin_batch("b1") and a begin_batch() that generated
\* an id, a data operation has sent its rows tagged with the generated id
C25_Witness ==
    /\ SelectSeq(ctx.operations, IsBegin) # <<>>
    /\ Len(SelectSeq(ctx.operations, IsBegin)) = MaxBegins
    /\ Head(SelectSeq(ctx.operations, IsBegin)).batch_id = "b1"
    /\ C25_Active = "u1"
    /\ db # <<>>
    /\ Last(db).batch = "u1" /\ Len(Last(db).rows) = MaxRows
    /\ job = NoJob /\ returned.status = "returned"

\* C26: diff_snapshots(s, s) has no node changes and no relationship
\* changes for every snapshot s, and the same holds for two snapshots built
\* separately (at different times) from equal nodes and relationships.
C26_EqualContents ==
    /\ computed.op = "diff_snapshots"
    /\ given.old.nodes = given.new.nodes
    /\ given.old.relationships = given.new.relationships

C26_NoChanges ==
    C26_EqualContents =>
        /\ computed.diff.node_changes = <<>>
        /\ computed.diff.relationship_changes = <<>>
        /\ ~has_changes(computed.diff)

\* C26 witness: the differ was given two snapshots built at different times
\* from the same two nodes, one of them with a property
C26_Witness ==
    /\ C26_EqualContents
    /\ given.old # given.new
    /\ Len(given.old.nodes) = 2
    /\ \E i \in DOMAIN given.old.nodes : given.old.nodes[i].properties # <<>>
    /\ computed.diff.node_changes = <<>>

\* C26 witness: the differ was given the same snapshot twice, with a
\* relationship that has two properties
C26_WitnessSame ==
    /\ computed.op = "diff_snapshots"
    /\ given.old = given.new
    /\ given.old.relationships # <<>>
    /\ Len(given.old.relationships[1].properties) = 2
    /\ computed.diff.relationship_changes = <<>>

\* C27: for snapshots old and new with no duplicate kgids, diff_snapshots
\* emits at most one NodeChange per kgid of the union of their node kgids,
\* in ascending kgid order: kind "added" exactly when the kgid is only in
\* new, "removed" exactly when it is only in old, "modified" exactly when it
\* is in both and the label differs or the property sub-diff is non-empty,
\* and no entry when the two nodes are equal.
C27_Kgids(nodes) == {nodes[i].kgid : i \in DOMAIN nodes}

C27_Unique(nodes) ==
    \A i, j \in DOMAIN nodes : nodes[i].kgid = nodes[j].kgid => i = j

C27_Node(nodes, kgid) == nodes[CHOOSE i \in DOMAIN nodes : nodes[i].kgid = kgid]

\* the kind of change the claim gives the kgid
C27_Kind(kgid) ==
    LET in_old == kgid \in C27_Kgids(given.old.nodes)
        in_new == kgid \in C27_Kgids(given.new.nodes)
    IN  IF ~in_old THEN "added"
        ELSE IF ~in_new THEN "removed"
        ELSE LET old_n == C27_Node(given.old.nodes, kgid)
                 new_n == C27_Node(given.new.nodes, kgid)
             IN  IF old_n.label # new_n.label \/ Range(old_n.properties) # Range(new_n.properties)
                 THEN "modified"
                 ELSE "none"

C27_NodeChanges ==
    (/\ computed.op = "diff_snapshots"
     /\ C27_Unique(given.old.nodes) /\ C27_Unique(given.new.nodes)) =>
        LET changes == computed.diff.node_changes
            union == C27_Kgids(given.old.nodes) \cup C27_Kgids(given.new.nodes)
        IN  /\ \A i \in DOMAIN changes : changes[i].kgid \in union
            /\ \A i, j \in DOMAIN changes :
                i < j => Rank(KgidOrder, changes[i].kgid) < Rank(KgidOrder, changes[j].kgid)
            /\ \A kgid \in union :
                LET of_kgid == {i \in DOMAIN changes : changes[i].kgid = kgid}
                IN  IF C27_Kind(kgid) = "none" THEN of_kgid = {}
                    ELSE /\ Cardinality(of_kgid) = 1
                         /\ \A i \in of_kgid : changes[i].kind = C27_Kind(kgid)
            /\ \A kgid \in union :
                (kgid \in C27_Kgids(given.old.nodes) /\ kgid \in C27_Kgids(given.new.nodes)
                 /\ C27_Node(given.old.nodes, kgid) = C27_Node(given.new.nodes, kgid))
                    => C27_Kind(kgid) = "none"

\* C27 witness: the differ reports "k1" as modified, for its label alone,
\* and then "k2" as added
C27_Witness ==
    /\ computed.op = "diff_snapshots"
    /\ Len(computed.diff.node_changes) = 2
    /\ computed.diff.node_changes[1].kind = "modified"
    /\ computed.diff.node_changes[1].kgid = "k1"
    /\ computed.diff.node_changes[1].label_renamed
    /\ computed.diff.node_changes[1].property_changes = <<>>
    /\ computed.diff.node_changes[2].kind = "added"
    /\ computed.diff.node_changes[2].kgid = "k2"
    /\ given.new.nodes[1].kgid = "k2"

\* C28: relationships are diffed by the identical algorithm as nodes,
\* independently of the node change set: for each relationship kgid in
\* sorted union order the same added / removed / modified rules apply, so a
\* relationship present in both snapshots whose rel_type differs yields a
\* "modified" RelationshipChange just as a node whose label differs yields a
\* "modified" NodeChange.
C28_Kind(kgid) ==
    LET in_old == kgid \in C27_Kgids(given.old.relationships)
        in_new == kgid \in C27_Kgids(given.new.relationships)
    IN  IF ~in_old THEN "added"
        ELSE IF ~in_new THEN "removed"
        ELSE LET old_r == C27_Node(given.old.relationships, kgid)
                 new_r == C27_Node(given.new.relationships, kgid)
             IN  IF old_r.rel_type # new_r.rel_type \/ Range(old_r.properties) # Range(new_r.properties)
                 THEN "modified"
                 ELSE "none"

C28_RelationshipChanges ==
    (/\ computed.op = "diff_snapshots"
     /\ C27_Unique(given.old.relationships) /\ C27_Unique(given.new.relationships)) =>
        LET changes == computed.diff.relationship_changes
            union == C27_Kgids(given.old.relationships) \cup C27_Kgids(given.new.relationships)
        IN  /\ \A i \in DOMAIN changes : changes[i].kgid \in union
            /\ \A i, j \in DOMAIN changes :
                i < j => Rank(KgidOrder, changes[i].kgid) < Rank(KgidOrder, changes[j].kgid)
            /\ \A kgid \in union :
                LET of_kgid == {i \in DOMAIN changes : changes[i].kgid = kgid}
                IN  IF C28_Kind(kgid) = "none" THEN of_kgid = {}
                    ELSE /\ Cardinality(of_kgid) = 1
                         /\ \A i \in of_kgid : changes[i].kind = C28_Kind(kgid)

\* C28, but for the rel_type: the relationship rules hold when a difference
\* of rel_type alone is not counted as a modification
C28_KindByProperties(kgid) ==
    LET in_old == kgid \in C27_Kgids(given.old.relationships)
        in_new == kgid \in C27_Kgids(given.new.relationships)
    IN  IF ~in_old THEN "added"
        ELSE IF ~in_new THEN "removed"
        ELSE IF Range(C27_Node(given.old.relationships, kgid).properties)
                # Range(C27_Node(given.new.relationships, kgid).properties)
        THEN "modified"
        ELSE "none"

C28_ChangesByProperties ==
    computed.op = "diff_snapshots" =>
        LET changes == computed.diff.relationship_changes
            union == C27_Kgids(given.old.relationships) \cup C27_Kgids(given.new.relationships)
        IN  /\ \A i \in DOMAIN changes : changes[i].kgid \in union
            /\ \A i, j \in DOMAIN changes :
                i < j => Rank(KgidOrder, changes[i].kgid) < Rank(KgidOrder, changes[j].kgid)
            /\ \A kgid \in union :
                LET of_kgid == {i \in DOMAIN changes : changes[i].kgid = kgid}
                IN  IF C28_KindByProperties(kgid) = "none" THEN of_kgid = {}
                    ELSE /\ Cardinality(of_kgid) = 1
                         /\ \A i \in of_kgid : changes[i].kind = C28_KindByProperties(kgid)

\* C28: the differ was given a relationship whose rel_type alone differs,
\* and reports no relationship change
C28_Unreported ==
    /\ computed.op = "diff_snapshots"
    /\ Len(given.old.relationships) = 1 /\ Len(given.new.relationships) = 1
    /\ given.old.relationships[1].kgid = given.new.relationships[1].kgid
    /\ given.old.relationships[1].rel_type # given.new.relationships[1].rel_type
    /\ given.old.relationships[1].properties = given.new.relationships[1].properties
    /\ computed.diff.relationship_changes = <<>>

\* C29: compute_hash depends only on the structure of nodes and
\* relationships: two snapshots with the same nodes and relationships have
\* the same digest whatever their created_at and schema_hash fields and
\* whatever the order of the nodes, relationships and per-entity properties
\* tuples; and compute_hash(hash_snapshot(s)) = compute_hash(s).
C29_Entities(entities) ==
    {[kgid |-> e.kgid, entity |-> [e EXCEPT !.properties = Range(e.properties)]] :
        e \in Range(entities)}

C29_SameStructure ==
    /\ C27_Unique(given.old.nodes) /\ C27_Unique(given.new.nodes)
    /\ C27_Unique(given.old.relationships) /\ C27_Unique(given.new.relationships)
    /\ C29_Entities(given.old.nodes) = C29_Entities(given.new.nodes)
    /\ C29_Entities(given.old.relationships) = C29_Entities(given.new.relationships)

C29_StructureOnly ==
    /\ (computed.op = "compute_hash" /\ C29_SameStructure) => computed.old = computed.new
    /\ computed.op = "hash_snapshot" =>
        /\ computed.snapshot = [given.new EXCEPT !.schema_hash = computed.digest]
        /\ computed.digest = compute_hash(given.new)

\* C29 witness: two snapshots with the same two nodes in different orders,
\* another created_at and another schema_hash have the same digest
C29_Witness ==
    /\ computed.op = "compute_hash"
    /\ C29_SameStructure
    /\ Len(given.old.nodes) = 2
    /\ given.old.nodes # given.new.nodes
    /\ given.old.created_at # given.new.created_at
    /\ given.old.schema_hash # given.new.schema_hash
    /\ computed.old = computed.new

\* C29 witness: two snapshots whose node has the same two properties in
\* different orders have the same digest
C29_WitnessProperties ==
    /\ computed.op = "compute_hash"
    /\ C29_SameStructure
    /\ Len(given.old.nodes) = 1
    /\ Len(given.old.nodes[1].properties) = 2
    /\ given.old.nodes[1].properties # given.new.nodes[1].properties
    /\ computed.old = computed.new

\* C30: adding, removing or modifying (any field: property_type, required,
\* unique_index, index, default, choices) a single property on any node or
\* relationship of a snapshot changes the canonical form that compute_hash
\* digests, so the two snapshots hash differently.
C30_Names(entity) == {entity.properties[i].name : i \in DOMAIN entity.properties}

\* the names whose property is not the same in the two versions of an entity
C30_Changed(old_e, new_e) ==
    {name \in C30_Names(old_e) \cup C30_Names(new_e) :
        {p \in Range(old_e.properties) : p.name = name}
            # {p \in Range(new_e.properties) : p.name = name}}

\* new_e is old_e with one property added, removed or modified
C30_OneChange(old_e, new_e) ==
    /\ [old_e EXCEPT !.properties = <<>>] = [new_e EXCEPT !.properties = <<>>]
    /\ Cardinality(C30_Changed(old_e, new_e)) = 1

\* the second snapshot is the first one with a single property changed, on
\* one node or one relationship
C30_SingleProperty ==
    LET old_es == given.old.nodes \o given.old.relationships
        new_es == given.new.nodes \o given.new.relationships
    IN  /\ C27_Unique(old_es) /\ C27_Unique(new_es)
        /\ Len(given.old.nodes) = Len(given.new.nodes)
        /\ C27_Kgids(given.old.nodes) = C27_Kgids(given.new.nodes)
        /\ C27_Kgids(given.old.relationships) = C27_Kgids(given.new.relationships)
        /\ \E kgid \in C27_Kgids(old_es) :
            /\ C30_OneChange(C27_Node(old_es, kgid), C27_Node(new_es, kgid))
            /\ \A other \in C27_Kgids(old_es) \ {kgid} :
                C29_Entities(<<C27_Node(old_es, other)>>) = C29_Entities(<<C27_Node(new_es, other)>>)

C30_HashChanges ==
    (computed.op = "compute_hash" /\ C30_SingleProperty) =>
        /\ _canonical_json(given.old) # _canonical_json(given.new)
        /\ computed.old # computed.new

\* the one property that differs, in the first and in the second snapshot
C30_Old == given.old.nodes[1].properties[1]

C30_New == given.new.nodes[1].properties[1]

\* C30 witness: the `default' of the one property of a node was changed
\* from the int 1 to the str "1", and the digests differ
C30_Witness ==
    /\ computed.op = "compute_hash" /\ C30_SingleProperty
    /\ Len(given.old.nodes) = 1 /\ Len(given.new.nodes) = 1
    /\ Len(given.old.nodes[1].properties) = 1 /\ Len(given.new.nodes[1].properties) = 1
    /\ C30_Old.default = PyInt("1") /\ C30_New.default = PyStr("1")
    /\ computed.old # computed.new

\* C30 witnesses: the `choices' of a node's property were changed from None
\* to the empty tuple; a property was added to a relationship; one of the
\* two properties of a node was removed
C30_WitnessChoices ==
    /\ computed.op = "compute_hash" /\ C30_SingleProperty
    /\ Len(given.old.nodes) = 1 /\ Len(given.new.nodes) = 1
    /\ Len(given.old.nodes[1].properties) = 1 /\ Len(given.new.nodes[1].properties) = 1
    /\ C30_Old = BaseProperty("a")
    /\ C30_New \in {[C30_Old EXCEPT !.choices = PresentItems(<<>>)]}

C30_WitnessAdded ==
    /\ computed.op = "compute_hash" /\ C30_SingleProperty
    /\ Len(given.old.relationships) = 1 /\ Len(given.new.relationships) = 1
    /\ given.old.relationships[1].properties = <<>>
    /\ given.new.relationships[1].properties # <<>>

C30_WitnessRemoved ==
    /\ computed.op = "compute_hash" /\ C30_SingleProperty
    /\ Len(given.old.nodes) = 1 /\ Len(given.new.nodes) = 1
    /\ Len(given.old.nodes[1].properties) = 2 /\ Len(given.new.nodes[1].properties) = 1

\* ------------------------------------------------------------------------
\* C31: serialization round trips
\* ------------------------------------------------------------------------

\* the properties of the new snapshot that were taken through to_dict and
\* from_dict
C31_Given == properties_of(given.new.nodes) \o properties_of(given.new.relationships)

\* C31: for every PropertyIR p, PropertyIR.from_dict(p.to_dict()) == p; and
\* for every snapshot s, t = SchemaSnapshot.from_json(hash_snapshot(s).to_json())
\* has the same schema_hash, compute_hash(t) equals that schema_hash, and
\* diff_snapshots(s, t) has no changes.
C31_RoundTrips ==
    computed.op = "round_trip" =>
        /\ computed.properties = C31_Given
        /\ computed.snapshot.schema_hash = computed.hashed.schema_hash
        /\ compute_hash(computed.snapshot) = computed.hashed.schema_hash
        /\ ~has_changes(diff_snapshots(given.new, computed.snapshot))

\* C31: what the code does keep: the stored schema_hash comes back as it
\* was written, and a snapshot whose properties have no default and no
\* empty choices comes back equal in structure
C31_Plain(p) == p.default = PyNone /\ p.choices # PresentItems(<<>>)

C31_PlainRoundTrips ==
    computed.op = "round_trip" =>
        /\ computed.snapshot.schema_hash = computed.hashed.schema_hash
        /\ \A i \in DOMAIN C31_Given : C31_Plain(C31_Given[i]) <=> computed.properties[i] = C31_Given[i]
        /\ (\A i \in DOMAIN C31_Given : C31_Plain(C31_Given[i])) <=>
                compute_hash(computed.snapshot) = computed.hashed.schema_hash
        /\ (\A i \in DOMAIN C31_Given : C31_Plain(C31_Given[i])) <=>
                ~has_changes(diff_snapshots(given.new, computed.snapshot))

\* C31: a property with the default 1 came back with the default '1', and
\* the hash of the snapshot read back is no longer the stored one
C31_Lost ==
    /\ computed.op = "round_trip"
    /\ Len(C31_Given) = 1
    /\ C31_Given[1].default = PyInt("1")
    /\ computed.properties[1].default = PyStr("1")
    /\ compute_hash(computed.snapshot) # computed.hashed.schema_hash

\* ------------------------------------------------------------------------
\* C32: no partial file under a final name
\* ------------------------------------------------------------------------

\* the file holds every chunk of one download
C32_Complete(file) ==
    /\ Len(file.chunks) = FileChunks
    /\ \E content \in Contents : \A k \in DOMAIN file.chunks : file.chunks[k] = content

C32_FinalNames == {dest} \cup {_slot(checksum) : checksum \in Contents}

\* C32: at every step of a fetch, including when the fetch is interrupted
\* or when several fetches run concurrently, any file that exists at the
\* destination path or at the cache slot <cache>/<checksum>/<filename> is
\* complete.
C32_NoPartialFile ==
    \A path \in C32_FinalNames : disk[path].exists => C32_Complete(disk[path])

\* C32: the part the fetcher does keep: a file at the destination path is
\* complete, since it gets there by a rename
C32_DestComplete == disk[dest].exists => C32_Complete(disk[dest])

\* C32: one call alone was interrupted while FileCache.store was copying:
\* the cache slot holds the first chunk only, and nothing will complete it
C32_PartialSlot ==
    /\ fetchers[1].pc = "interrupted"
    /\ fetchers[2] = NoFetch
    /\ disk[_slot("x")].exists
    /\ disk[_slot("x")].chunks = <<"x">>

\* ------------------------------------------------------------------------
\* C33: verify_project
\* ------------------------------------------------------------------------

C33_ChainIntact ==
    \A i \in DOMAIN ledger : ledger[i].parent_id = None \/ is_applied(ledger, ledger[i].parent_id)

C33_FilesPresent ==
    \A i \in DOMAIN ledger : \E k \in DOMAIN files : files[k].revision_id = ledger[i].revision_id

C33_NonePending ==
    \A k \in DOMAIN files : is_applied(ledger, files[k].revision_id)

C33_HashesAgree ==
    \A k \in DOMAIN files : \A i \in DOMAIN ledger :
        (files[k].revision_id = ledger[i].revision_id /\ files[k].schema_hash # "") =>
            ledger[i].schema_hash = files[k].schema_hash

C33_Reported ==
    report' # report =>
        /\ report'.passed <=> (C33_ChainIntact /\ C33_FilesPresent /\ C33_NonePending /\ C33_HashesAgree)
        /\ ledger' = ledger

\* C33: verify_project(config, ledger).passed is true exactly when
\* verify_chain() reports no issue, every migration recorded in the ledger
\* has a discovered migration file with the same revision_id, there is no
\* pending migration, and no discovered applied migration with a non-empty
\* file schema_hash differs from the ledger's recorded schema_hash;
\* verify_project never changes the ledger.
C33_VerifyProject == [][C33_Reported]_vars

\* C33 witness: two files, both applied, the second on top of the first,
\* one file without a schema_hash and one with the recorded one: the
\* report has its four checks and passed
C33_Witness ==
    /\ Len(files) = 2
    /\ Len(ledger) = 2
    /\ Len(report.checks) = 4
    /\ report.passed
    /\ C33_ChainIntact /\ C33_FilesPresent /\ C33_NonePending /\ C33_HashesAgree
    /\ \E k \in DOMAIN files : files[k].schema_hash = ""
    /\ \E k \in DOMAIN files : files[k].schema_hash # ""
    /\ \E i \in DOMAIN ledger : ledger[i].parent_id # None

\* C33 witness: only the hash check fails
C33_WitnessMismatch ==
    /\ Len(report.checks) = 4
    /\ ~report.passed
    /\ report.checks[1].passed /\ report.checks[2].passed /\ report.checks[3].passed
    /\ ~report.checks[4].passed
    /\ C33_ChainIntact /\ C33_FilesPresent /\ C33_NonePending /\ ~C33_HashesAgree

\* ------------------------------------------------------------------------
\* C34: the applied migrations stay a prefix of the chain
\* ------------------------------------------------------------------------

\* every applied migration's parent is null or applied, and the applied
\* migrations are the first ones of the chain 1 <- 2 <- ... <- n
C34_Prefix(l) ==
    /\ verify_chain(l) = <<>>
    /\ AppliedSet(l) = 1..Cardinality(AppliedSet(l))

C34_Returns ==
    (/\ ~call.dry_run
     /\ pc # "idle"
     /\ outcome'.status = "returned"
     /\ C34_Prefix(ledger0)) => C34_Prefix(ledger')

\* C34: after any sequence of successful non-dry-run upgrade and downgrade
\* calls (any targets, no body failures) over migration files that form a
\* well-formed linear parent chain with arbitrary filenames, every applied
\* migration's parent_id is null or the revision_id of another applied
\* migration, i.e. verify_chain() returns no issues and the applied set is
\* a prefix of the chain: a call that returns keeps this true.
C34_ChainKept == [][C34_Returns]_vars

\* C34: upgrade(target=3) has returned with revisions 1 and 3 applied and
\* revision 2, the parent of 3, not applied
C34_Gap ==
    /\ call.op = "upgrade" /\ call.target = 3 /\ ~call.dry_run
    /\ outcome.status = "returned"
    /\ AppliedSet(ledger) = {1, 3}
    /\ verify_chain(ledger) # <<>>

\* ------------------------------------------------------------------------
\* C35: the generated downgrade body undoes the generated upgrade body
\* ------------------------------------------------------------------------

\* C35: for every 'modified' node change, running the upgrade body produced
\* by generate_operations_from_diff and then the produced downgrade body
\* against a graph restores the graph's original label, property set,
\* constraints and indexes.
C35_Restored ==
    computed.op = "run_bodies" =>
        \A i \in DOMAIN computed.runs : computed.runs[i].reverted = computed.runs[i].before

\* C35: what the code does keep: line by line the downgrade body is the
\* inverse call of the upgrade body, in the same order; and the graph is
\* restored when the label is not renamed and no property is removed
C35_LineByLine ==
    /\ computed.op = "generate_operations_from_diff" =>
            /\ Len(computed.code.downgrade) = Len(computed.code.upgrade)
            /\ \A k \in DOMAIN computed.code.upgrade :
                    LET up == computed.code.upgrade[k]
                        down == computed.code.downgrade[k]
                    IN  /\ down.label = (IF up.op = "rename_label" THEN up.property ELSE up.label)
                        /\ down.property = (IF up.op = "rename_label" THEN up.label ELSE up.property)
                        /\ <<up.op, down.op>> \in
                                {<<"rename_label", "rename_label">>, <<"# TODO", "# TODO">>,
                                 <<"add_node_property", "remove_node_property">>,
                                 <<"remove_node_property", "add_node_property">>,
                                 <<"add_unique_constraint", "drop_unique_constraint">>,
                                 <<"drop_unique_constraint", "add_unique_constraint">>,
                                 <<"add_index", "drop_index">>, <<"drop_index", "add_index">>,
                                 <<"add_node_property_existence_constraint", "drop_node_property_existence_constraint">>,
                                 <<"drop_node_property_existence_constraint", "add_node_property_existence_constraint">>}
    /\ computed.op = "run_bodies" =>
            \A i \in DOMAIN computed.runs :
                LET nc == computed.runs[i].change
                IN  (/\ ~nc.label_renamed
                     /\ \A k \in DOMAIN nc.property_changes : nc.property_changes[k].kind # "removed")
                        => computed.runs[i].reverted = computed.runs[i].before

\* C35: the node class A is renamed to B and its property a is no longer a
\* unique_index: the upgrade body has dropped crochet_uniq_B_a, which did
\* not exist, and the downgrade body has created it; crochet_uniq_A_a was
\* there all the time
C35_Unrestored ==
    /\ computed.op = "run_bodies"
    /\ Len(computed.runs) = 1
    /\ computed.runs[1].change.label_renamed
    /\ computed.runs[1].before.constraints = {constraint_name("uniq", "A", "a")}
    /\ computed.runs[1].upgraded.constraints = {constraint_name("uniq", "A", "a")}
    /\ computed.runs[1].reverted.label = "A"
    /\ computed.runs[1].reverted.constraints = {constraint_name("uniq", "A", "a"), constraint_name("uniq", "B", "a")}

\* C35: a property was removed and the label kept: the downgrade body's
\* add_node_property has no default and runs nothing
C35_PropertyLost ==
    /\ computed.op = "run_bodies"
    /\ Len(computed.runs) = 1
    /\ ~computed.runs[1].change.label_renamed
    /\ computed.runs[1].before.properties = {"a", "b"}
    /\ computed.runs[1].reverted.properties = {"a"}

\* ------------------------------------------------------------------------
\* C36, C37: the target bounds what a call touches
\* ------------------------------------------------------------------------

\* the running call was given a discovered migration as its target
C36_TargetGiven(op) ==
    /\ call.op = op
    /\ pc # "idle"
    /\ call.target \in Range(RevIds(files))

\* the revisions whose body this step invokes, and those whose ledger row
\* it writes or deletes
C36_Invoked == IF Len(executed') > Len(executed) THEN {Last(executed').revision_id} ELSE {}

C36_Recorded == AppliedSet(ledger') \ AppliedSet(ledger)

C37_Removed == AppliedSet(ledger) \ AppliedSet(ledger')

C36_Bounded ==
    C36_TargetGiven("upgrade") =>
        \A r \in C36_Invoked \cup C36_Recorded : ChainPos(r) <= ChainPos(call.target)

\* C36: upgrade(target=t), for any discovered migration t whether pending
\* or already applied, never executes or records a migration that lies
\* after t in chain order.
C36_NothingAfterTarget == [][C36_Bounded]_vars

\* the files are named in chain order, so that discover_migrations returns
\* the chain
C36_NamedInOrder == \A i \in DOMAIN files : files[i].revision_id = i

\* C36: with the files named in chain order and revision 1 applied,
\* upgrade(target=1) has invoked the upgrade body of revision 2 and
\* recorded it
C36_Overrun ==
    /\ C36_NamedInOrder
    /\ C36_TargetGiven("upgrade")
    /\ call.target = 1 /\ ~call.dry_run
    /\ AppliedSet(ledger0) = {1}
    /\ Len(executed) = 1 /\ executed[1].revision_id = 2
    /\ AppliedSet(ledger) = {1, 2}

C37_Bounded ==
    C36_TargetGiven("downgrade") =>
        \A r \in C36_Invoked \cup C37_Removed : ChainPos(r) > ChainPos(call.target)

\* C37: downgrade(target=t), for any discovered migration t whether applied
\* or still pending, reverts only applied migrations that lie after t in
\* chain order; applied migrations that precede t in the chain are never
\* reverted.
C37_OnlyAfterTarget == [][C37_Bounded]_vars

\* C37: with the files named in chain order and only revision 1 applied,
\* downgrade(target=2) has invoked the downgrade body of revision 1 and
\* removed its row
C37_Overrun ==
    /\ C36_NamedInOrder
    /\ call.op = "downgrade" /\ call.target = 2 /\ ~call.dry_run
    /\ Len(files) >= 2
    /\ outcome.status = "returned" /\ outcome.ids = <<1>>
    /\ executed = <<Body(files[1], "downgrade", TRUE)>>
    /\ ledger = <<>>

\* ------------------------------------------------------------------------
\* C38: the differ and the hasher
\* ------------------------------------------------------------------------

\* diff_snapshots was called on two snapshots with unique kgids
C38_Diffed ==
    /\ computed.op = "diff_snapshots"
    /\ C27_Unique(given.old.nodes) /\ C27_Unique(given.new.nodes)
    /\ C27_Unique(given.old.relationships) /\ C27_Unique(given.new.relationships)

C38_SameHash == compute_hash(given.old) = compute_hash(given.new)

\* C38: the differ and the hasher agree on what a schema change is: for any
\* two snapshots old and new with unique kgids,
\* diff_snapshots(old, new).has_changes is false if and only if
\* compute_hash(old) = compute_hash(new).
C38_DifferAndHasherAgree ==
    C38_Diffed => (~has_changes(computed.diff) <=> C38_SameHash)

\* C38, one direction: snapshots with the same digest have no changes
C38_SameHashNoChanges ==
    (C38_Diffed /\ C38_SameHash) => ~has_changes(computed.diff)

\* C38: the differ was given two snapshots whose one node differs in a
\* relationship definition only; it reports no change, the digests differ
C38_DefinitionUnreported ==
    /\ C38_Diffed
    /\ Len(given.old.nodes) = 1 /\ Len(given.new.nodes) = 1
    /\ given.old.relationships = given.new.relationships
    /\ given.old.nodes[1].relationship_defs # given.new.nodes[1].relationship_defs
    /\ given.old.nodes[1] = [given.new.nodes[1] EXCEPT !.relationship_defs = given.old.nodes[1].relationship_defs]
    /\ ~has_changes(computed.diff)
    /\ ~C38_SameHash

\* C38: the differ was given two snapshots whose one relationship differs
\* in rel_type only; it reports no change, the digests differ
C38_RelTypeUnreported ==
    /\ C38_Diffed
    /\ given.old.nodes = given.new.nodes
    /\ Len(given.old.relationships) = 1 /\ Len(given.new.relationships) = 1
    /\ given.old.relationships[1] = [given.new.relationships[1] EXCEPT !.rel_type = given.old.relationships[1].rel_type]
    /\ given.old.relationships[1].rel_type # given.new.relationships[1].rel_type
    /\ ~has_changes(computed.diff)
    /\ ~C38_SameHash

\* C38: the differ was given two snapshots with the same digest and
\* different tuples, and reports no change
C38_SameHashReordered ==
    /\ C38_Diffed /\ C38_SameHash
    /\ given.old.nodes # given.new.nodes
    /\ ~has_changes(computed.diff)

====
